---------------------------- MODULE Spec2Model ----------------------------
(***************************************************************************)
(* HGB-Dice: exact probability engine for Heavy Gear Blitz attack rolls.   *)
(*                                                                         *)
(* The module models                                                       *)
(*   - diceGame/diceProbs.py      (closed-form dice PMFs),                 *)
(*   - diceGame/gameObjects.py    (State, Component, Entity),              *)
(*   - HeavyGearBlitz/HGBRules.py (base rules, Scenario pipeline),         *)
(*   - HeavyGearBlitz/HGBModelDefs.py, HGBWeaponDefs.py (trait Components),*)
(*   - HGBOpposedWindow.py (make_scenario: how the models are built).      *)
(*                                                                         *)
(* Probabilities are exact rationals <<numerator, denominator>> in lowest  *)
(* terms; the rounding of Python floats and of 12-digit Decimals is not    *)
(* modelled, so "equal" below means equal before rounding.                 *)
(***************************************************************************)
EXTENDS Integers, Sequences, FiniteSets, Bags, TLC

VARIABLES
    \* --- dice math (diceProbs.py): the arguments of a call and its result
    dice, sides, val, dOp, dPdf,
    \* --- State objects (gameObjects.py): every State object created so far,
    \*     and the last method call with its receiver, argument and result
    heap, call,
    \* --- one Entity (gameObjects.py): the Entity object, the position of a
    \*     running Entity.pass_message, and the last direct call made on it
    ent, pm, eCall,
    \* --- one Scenario (HGBRules.py): its three Entities, the world-sets of
    \*     get_rolls / evaluate (start_states, att_rolls, def_rolls,
    \*     mos_states), the position in get_rolls / evaluate, the list of the
    \*     pass_states calls made so far, and the result of a group_states call
    base_rules, attacker, defender, start_states, att_rolls, def_rolls,
    mos_states, pc, log, grouped, res, returned

varsDice == <<dice, sides, val, dOp, dPdf>>
varsState == <<heap, call>>
varsEntity == <<ent, pm, eCall>>
varsScenario ==
    <<base_rules, attacker, defender, start_states, att_rolls, def_rolls,
      mos_states, pc, log, grouped, res,
      returned>>
vars ==
    <<dice, sides, val, dOp, dPdf, heap, call, ent, pm, eCall, base_rules,
      attacker, defender, start_states, att_rolls, def_rolls, mos_states, pc,
      log, grouped, res, returned>>

-----------------------------------------------------------------------------
(* Bounds of the model *)
MaxDice == 4
MaxSides == 6
MaxVal == 7
MaxObjs == 3
MaxComps == 3
MaxDamage == 2
MaxHull == 2
MaxStructure == 2
MaxPending == 4
MaxAP == 2

-----------------------------------------------------------------------------
(* Exact rational arithmetic standing for Python float / Decimal values *)

Abs(x) == IF x < 0 THEN -x ELSE x

Range(seq) == {seq[i] : i \in DOMAIN seq}

Max(a, b) == IF a >= b THEN a ELSE b

Min(a, b) == IF a <= b THEN a ELSE b

RECURSIVE GCD(_, _)
GCD(a, b) == IF b = 0 THEN a ELSE GCD(b, a % b)

RECURSIVE Pow(_, _)
Pow(b, e) == IF e <= 0 THEN 1 ELSE b * Pow(b, e - 1)

\* n/d in lowest terms with a positive denominator
Rat(n, d) ==
    LET g == GCD(Abs(n), Abs(d))
        s == IF d < 0 THEN -1 ELSE 1
    IN  <<(s * n) \div g, (s * d) \div g>>

RZero == <<0, 1>>
ROne == <<1, 1>>

RAdd(x, y) ==
    LET g == GCD(x[2], y[2])
        l == (x[2] \div g) * y[2]
    IN  Rat(x[1] * (l \div x[2]) + y[1] * (l \div y[2]), l)

RNeg(x) == <<-x[1], x[2]>>

RSub(x, y) == RAdd(x, RNeg(y))

RMul(x, y) ==
    LET g1 == GCD(Abs(x[1]), y[2])
        g2 == GCD(Abs(y[1]), x[2])
        h1 == IF g1 = 0 THEN 1 ELSE g1
        h2 == IF g2 = 0 THEN 1 ELSE g2
    IN  Rat((x[1] \div h1) * (y[1] \div h2), (x[2] \div h2) * (y[2] \div h1))

RPow(x, e) == <<Pow(x[1], e), Pow(x[2], e)>>

RInt(n) == <<n, 1>>

RLess(x, y) ==
    LET g == GCD(x[2], y[2])
    IN  x[1] * (y[2] \div g) < y[1] * (x[2] \div g)

\* the least common multiple of a set of positive integers
RECURSIVE LCMOver(_)
LCMOver(S) ==
    IF S = {} THEN 1
    ELSE LET d == CHOOSE x \in S : TRUE
             l == LCMOver(S \ {d})
         IN  (d \div GCD(d, l)) * l

\* sum of the values f[k], k in keys, of a function to rationals: the
\* numerators over the common denominator are added up (as the sizes of the
\* bags of the positive and of the negative ones)
RSumOver(f, keys) ==
    LET l == LCMOver({f[k][2] : k \in keys})
        num(k) == f[k][1] * (l \div f[k][2])
        pos == {k \in keys : f[k][1] > 0}
        neg == {k \in keys : f[k][1] < 0}
    IN  Rat(BagCardinality([k \in pos |-> num(k)])
                - BagCardinality([k \in neg |-> -num(k)]), l)

RSum(f) == RSumOver(f, DOMAIN f)

\* math.comb
RECURSIVE Comb(_, _)
Comb(n, k) ==
    IF k < 0 \/ k > n THEN 0
    ELSE IF k = 0 THEN 1
    ELSE (Comb(n - 1, k - 1) * n) \div k

-----------------------------------------------------------------------------
(* diceProbs.py *)

\* a slip in the second exponent
prob_max_roll_offByOne(d, s, v) ==
    RSub(RPow(Rat(v, s), d), RPow(Rat(v - 1, s), d + 1))

prob_max_roll(d, s, v) ==
    RSub(RPow(Rat(v, s), d), RPow(Rat(v - 1, s), d))

\* the keys are k, not k + 1
all_probs_high_die_keysFromZero(d, s) ==
    [k \in 0..(s - 1) |-> prob_max_roll(d, s, k + 1)]

all_probs_high_die(d, s) ==
    [k \in 1..s |-> prob_max_roll(d, s, k)]

\* a threshold equal to the number of faces counts as out of reach
all_probs_threshold_strictGuard(d, s, v) ==
    IF s <= v \/ d < 1 THEN (0 :> ROne)
    ELSE LET dieChance == Rat(Max(0, (s - v) + 1), s)
         IN  [k \in 0..d |->
                 RMul(RInt(Comb(d, k)),
                      RMul(RPow(dieChance, k),
                           RPow(RSub(ROne, dieChance), d - k)))]

all_probs_threshold(d, s, v) ==
    IF s < v \/ d < 1 THEN (0 :> ROne)
    ELSE LET dieChance == Rat(Max(0, (s - v) + 1), s)
         IN  [k \in 0..d |->
                 RMul(RInt(Comb(d, k)),
                      RMul(RPow(dieChance, k),
                           RPow(RSub(ROne, dieChance), d - k)))]

\* max(roll) of a non-empty tuple of faces
max_face(roll) == CHOOSE m \in Range(roll) : \A x \in Range(roll) : x <= m

\* all_probs_brute_force_max_roll, for dice >= 1: every roll of the dice is
\* generated, the highest faces are counted, the counts are divided by
\* the number of rolls
all_probs_brute_force_max_roll(d) ==
    LET rolls == [1..d -> 1..6]
        count == [f \in 1..6 |-> Cardinality({r \in rolls : max_face(r) = f})]
        total == BagCardinality([f \in {g \in 1..6 : count[g] > 0} |-> count[f]])
    IN  [f \in {g \in 1..6 : count[g] > 0} |-> Rat(count[f], total)]

expected(pdf) ==
    RSum([k \in DOMAIN pdf |-> RMul(RInt(k), pdf[k])])

-----------------------------------------------------------------------------
(* gameObjects.py: State, and HGBRules.py: Effect *)

\* Effect(name, source, value=Decimal(1))
Effect(n, src, v) == [name |-> n, source |-> src, value |-> v]

\* the effect argument left out (effect=None)
None == [name |-> "None"]

\* State(prob=Decimal(1), effects=frozenset())
State(p, effs) == [prob |-> p, effects |-> effs]

\* dataclasses.replace(state, prob=p)
replace_prob(state, p) == [prob |-> p, effects |-> state.effects]

\* the filter of remove_effects / get_effects: every keyword equals the
\* attribute of that name
matches(effect, kwargs) == \A k \in DOMAIN kwargs : effect[k] = kwargs[k]

add_effect(state, effect) ==
    IF effect = None THEN state
    ELSE [prob |-> state.prob, effects |-> state.effects \cup {effect}]

remove_effects(state, kwargs) ==
    [prob |-> state.prob,
     effects |-> {e \in state.effects : ~matches(e, kwargs)}]

\* pred is a function from the state's effects to BOOLEAN
remove_by_filter(state, pred) ==
    [prob |-> state.prob, effects |-> {e \in state.effects : ~pred[e]}]

get_effects(state, kwargs) == {e \in state.effects : matches(e, kwargs)}

get_by_filter(state, pred) == {e \in state.effects : pred[e]}

\* sum(map(attrgetter("value"), effects)) over a frozenset of Effects
RECURSIVE sum_values(_)
sum_values(effects) ==
    IF effects = {} THEN 0
    ELSE LET e == CHOOSE x \in effects : TRUE
         IN  e.value + sum_values(effects \ {e})

\* summing the distinct values instead of the values of the distinct Effects
RECURSIVE sum_int_set(_)
sum_int_set(S) ==
    IF S = {} THEN 0
    ELSE LET x == CHOOSE y \in S : TRUE IN x + sum_int_set(S \ {x})

sum_effects_distinctValues(state, kwargs) ==
    sum_int_set({e.value : e \in get_effects(state, kwargs)})

sum_effects(state, kwargs) == sum_values(get_effects(state, kwargs))

sum_by_filter(state, pred) == sum_values(get_by_filter(state, pred))

\* Python object semantics of the three "mutators": each returns a record
\* [heap, ret] where ret is the index of the returned object. add_effect
\* returns self when the effect is None; replace() allocates a new object.
Alloc(h, newState) == [heap |-> Append(h, newState), ret |-> Len(h) + 1]

\* a mutable State: the effect is added to the receiver itself
State_add_effect_inPlace(h, i, effect) ==
    IF effect = None THEN [heap |-> h, ret |-> i]
    ELSE [heap |-> [h EXCEPT ![i] = add_effect(h[i], effect)], ret |-> i]

State_add_effect(h, i, effect) ==
    IF effect = None THEN [heap |-> h, ret |-> i]
    ELSE Alloc(h, add_effect(h[i], effect))

State_remove_effects(h, i, kwargs) == Alloc(h, remove_effects(h[i], kwargs))

State_remove_by_filter(h, i, pred) == Alloc(h, remove_by_filter(h[i], pred))

-----------------------------------------------------------------------------
(* HGBRules.py: the resolution steps (messages) *)

RollTimeSteps ==
    <<"INITIALIZE", "CHECK_COVER", "GATHER_DICE", "GATHER_RESULT_BONUSES",
      "GATHER_THRESHOLD_BONUSES", "ROLL_DICE", "ADD_SKILL">>

ResolveTimeSteps ==
    <<"GATHER_MODEL_DATA", "APPLY_HIT_MISS", "CALC_ATTACK_DAMAGE",
      "MOD_ATTACK_DAMAGE", "APPLY_ATTACK_DAMAGE", "ADD_EXTRA_EFFECTS",
      "APPLY_EXTRA_DAMAGE", "END_OF_ROUND", "CLEANUP">>

Messages == Range(RollTimeSteps) \cup Range(ResolveTimeSteps) \cup {"GetSkill"}

\* the number of faces of the dice of the game
D6 == 6

\* the threshold of a Fire / Haywire / Corrosion damage die
StatusThreshold == 4

-----------------------------------------------------------------------------
(* HGBRules.py: apply_damage *)

\* a Crippled Effect stays on the world when it is Destroyed
apply_one_damage_keepsCrippled(state, eff) ==
    LET source == eff.source
        hull0 == sum_effects(state, [name |-> "Hull"])
        structure0 == sum_effects(state, [name |-> "Structure"])
        hull_damage == Min(eff.value, hull0)
        hull == hull0 - hull_damage
        damage1 == eff.value - hull_damage
        structure_damage == Min(damage1, structure0)
        structure == structure0 - structure_damage
        damage == damage1 - structure_damage
        s1 == remove_effects(remove_effects(state, [name |-> "Hull"]),
                             [name |-> "Structure"])
        s2 == add_effect(add_effect(s1, Effect("Hull", "Hull", hull)),
                         Effect("Structure", "Structure", structure))
        s3 == IF structure = 0
              THEN add_effect(s2, Effect("Destroyed", source, 1))
              ELSE IF hull = 0 /\ get_effects(s2, [name |-> "Crippled"]) = {}
              THEN add_effect(s2, Effect("Crippled", source, 1))
              ELSE s2
    IN  IF damage > 0
        THEN add_effect(s3, Effect("Overdamage", source, damage))
        ELSE s3

\* the damage beyond Structure is discarded
apply_one_damage_noOverdamage(state, eff) ==
    LET source == eff.source
        hull0 == sum_effects(state, [name |-> "Hull"])
        structure0 == sum_effects(state, [name |-> "Structure"])
        hull_damage == Min(eff.value, hull0)
        hull == hull0 - hull_damage
        structure == structure0 - Min(eff.value - hull_damage, structure0)
        s1 == remove_effects(remove_effects(state, [name |-> "Hull"]),
                             [name |-> "Structure"])
        s2 == add_effect(add_effect(s1, Effect("Hull", "Hull", hull)),
                         Effect("Structure", "Structure", structure))
    IN  IF structure = 0
        THEN remove_effects(add_effect(s2, Effect("Destroyed", source, 1)),
                            [name |-> "Crippled"])
        ELSE IF hull = 0 /\ get_effects(s2, [name |-> "Crippled"]) = {}
        THEN add_effect(s2, Effect("Crippled", source, 1))
        ELSE s2

\* a Hull of 0 is not marked
apply_one_damage_neverCrippled(state, eff) ==
    LET source == eff.source
        hull0 == sum_effects(state, [name |-> "Hull"])
        structure0 == sum_effects(state, [name |-> "Structure"])
        hull_damage == Min(eff.value, hull0)
        hull == hull0 - hull_damage
        damage1 == eff.value - hull_damage
        structure_damage == Min(damage1, structure0)
        structure == structure0 - structure_damage
        damage == damage1 - structure_damage
        s1 == remove_effects(remove_effects(state, [name |-> "Hull"]),
                             [name |-> "Structure"])
        s2 == add_effect(add_effect(s1, Effect("Hull", "Hull", hull)),
                         Effect("Structure", "Structure", structure))
        s3 == IF structure = 0
              THEN remove_effects(add_effect(s2, Effect("Destroyed", source, 1)),
                                  [name |-> "Crippled"])
              ELSE s2
    IN  IF damage > 0
        THEN add_effect(s3, Effect("Overdamage", source, damage))
        ELSE s3

\* one pass of the loop body of apply_damage for the pending Effect eff
apply_one_damage(state, eff) ==
    LET source == eff.source
        hull0 == sum_effects(state, [name |-> "Hull"])
        structure0 == sum_effects(state, [name |-> "Structure"])
        hull_damage == Min(eff.value, hull0)
        hull == hull0 - hull_damage
        damage1 == eff.value - hull_damage
        structure_damage == Min(damage1, structure0)
        structure == structure0 - structure_damage
        damage == damage1 - structure_damage
        s1 == remove_effects(remove_effects(state, [name |-> "Hull"]),
                             [name |-> "Structure"])
        s2 == add_effect(add_effect(s1, Effect("Hull", "Hull", hull)),
                         Effect("Structure", "Structure", structure))
        s3 == IF structure = 0
              THEN remove_effects(add_effect(s2, Effect("Destroyed", source, 1)),
                                  [name |-> "Crippled"])
              ELSE IF hull = 0 /\ get_effects(s2, [name |-> "Crippled"]) = {}
              THEN add_effect(s2, Effect("Crippled", source, 1))
              ELSE s2
    IN  IF damage > 0
        THEN add_effect(s3, Effect("Overdamage", source, damage))
        ELSE s3

\* the loop of apply_damage over the Effects selected before the loop
\* (a frozenset: the order of iteration is the order CHOOSE picks)
RECURSIVE apply_damage_loop(_, _)
apply_damage_loop(state, effects) ==
    IF effects = {} THEN state
    ELSE LET eff == CHOOSE e \in effects : TRUE
         IN  apply_damage_loop(apply_one_damage(state, eff), effects \ {eff})

apply_damage(state, filter) ==
    IF get_effects(state, [name |-> "Destroyed"]) # {} THEN state
    ELSE apply_damage_loop(state, get_effects(state, filter))

-----------------------------------------------------------------------------
(* HGBRules.py: the Components of the base rules and the generic ones *)

\* DiceRuleComponent._add_two
add_two(state) == {add_effect(state, Effect("ModDice", "Base Rules", 2))}

\* the faces above the average are rolled again
reroll_aboveAverage(max_probs) ==
    LET avg == expected(max_probs)
        rerolls == {roll \in DOMAIN max_probs : RLess(avg, RInt(roll))}
        again == RSum([r \in rerolls |-> max_probs[r]])
    IN  [roll \in DOMAIN max_probs |->
            RAdd(IF roll \in rerolls THEN RZero ELSE max_probs[roll],
                 RMul(again, max_probs[roll]))]

\* the faces that are rolled again keep their first probability
reroll_keepsRerolled(max_probs) ==
    LET avg == expected(max_probs)
        rerolls == {roll \in DOMAIN max_probs : RLess(RInt(roll), avg)}
        again == RSum([r \in rerolls |-> max_probs[r]])
    IN  [roll \in DOMAIN max_probs |->
            RAdd(max_probs[roll], RMul(again, max_probs[roll]))]

\* the roll PMF of DiceRuleComponent._roll under the BelowAverage rule
reroll_below_average(max_probs) ==
    LET avg == expected(max_probs)
        rerolls == {roll \in DOMAIN max_probs : RLess(RInt(roll), avg)}
        again == RSum([r \in rerolls |-> max_probs[r]])
    IN  [roll \in DOMAIN max_probs |->
            RAdd(IF roll \in rerolls THEN RZero ELSE max_probs[roll],
                 RMul(again, max_probs[roll]))]

\* the roll PMF of DiceRuleComponent._roll for the world
roll_probs(state) ==
    LET n == Max(sum_effects(state, [name |-> "ModDice"]), 1)
        max_probs == all_probs_high_die(n, D6)
    IN  IF get_effects(state, [name |-> "BelowAverage"]) # {}
        THEN reroll_below_average(max_probs)
        ELSE max_probs

\* the probability of the world that is rolled is left out
roll_faceProbOnly(state) ==
    LET probs == roll_probs(state)
    IN  {add_effect(replace_prob(state, probs[v]),
                    Effect("ModResult", "Result Die", v)) : v \in DOMAIN probs}

\* DiceRuleComponent._roll
roll(state) ==
    LET probs == roll_probs(state)
    IN  {add_effect(replace_prob(state, RMul(probs[v], state.prob)),
                    Effect("ModResult", "Result Die", v)) : v \in DOMAIN probs}

\* a margin of exactly 0 is a miss
hit_miss_zeroIsMiss(state) ==
    LET mos == sum_effects(state, [name |-> "MoS"])
    IN  IF mos > 0
        THEN {add_effect(state, Effect("Hit", "Base Rules", 1))}
        ELSE {add_effect(state, Effect("Miss", "Base Rules", 1))}

\* AttackRuleComponent._hit_miss
hit_miss(state) ==
    LET mos == sum_effects(state, [name |-> "MoS"])
    IN  IF mos >= 0
        THEN {add_effect(state, Effect("Hit", "Base Rules", 1))}
        ELSE {add_effect(state, Effect("Miss", "Base Rules", 1))}

\* no marginal hit is recorded when the damage nets to 0
calc_attack_damage_noPending(state) ==
    IF get_effects(state, [name |-> "Hit"]) = {} THEN {state}
    ELSE LET damage == sum_effects(state, [name |-> "WeaponDamage"])
             armor == sum_effects(state, [name |-> "Armor"])
             mos == sum_effects(state, [name |-> "MoS"])
         IN  {add_effect(state, Effect("AttackDamage", "Base Rules",
                                       Max(damage + mos - armor, 0)))}

\* AttackRuleComponent._calc_attack_damage
calc_attack_damage(state) ==
    IF get_effects(state, [name |-> "Hit"]) = {} THEN {state}
    ELSE LET damage == sum_effects(state, [name |-> "WeaponDamage"])
             armor == sum_effects(state, [name |-> "Armor"])
             mos == sum_effects(state, [name |-> "MoS"])
             attack_damage == damage + mos - armor
             s1 == IF attack_damage = 0
                   THEN add_effect(state, Effect("MarginalHit", "Base Rules", 1))
                   ELSE state
         IN  {add_effect(s1, Effect("AttackDamage", "Base Rules",
                                    Max(attack_damage, 0)))}

\* the world that takes the extra damage keeps the whole probability
marginal_hit_fullProbHit(state) ==
    IF get_effects(state, [name |-> "MarginalHit"]) = {} THEN {state}
    ELSE LET s1 == remove_effects(state, [name |-> "MarginalHit"])
             no_hit == replace_prob(s1, RMul(s1.prob, <<1, 2>>))
             hit == add_effect(s1, Effect("AttackDamage", "Marginal Hit", 1))
         IN  {no_hit, hit}

\* AttackRuleComponent._marginal_hit
marginal_hit(state) ==
    IF get_effects(state, [name |-> "MarginalHit"]) = {} THEN {state}
    ELSE LET s1 == remove_effects(state, [name |-> "MarginalHit"])
             no_hit == replace_prob(s1, RMul(s1.prob, <<1, 2>>))
             hit == add_effect(no_hit, Effect("AttackDamage", "Marginal Hit", 1))
         IN  {no_hit, hit}

\* the extra damage of the armor-piercing weapon is applied first
damage_order_apFirst == <<"AP", "Marginal Hit", "Base Rules">>

\* the local damage_order of _apply_attack_damage
damage_order == <<"Base Rules", "Marginal Hit", "AP">>

\* AttackRuleComponent._apply_attack_damage
apply_attack_damage(state) ==
    IF get_effects(state, [name |-> "Miss"]) # {} THEN {state}
    ELSE LET by(st, i) == apply_damage(st, [name |-> "AttackDamage",
                                            source |-> damage_order[i]])
         IN  {by(by(by(state, 1), 2), 3)}

\* the BonusDamage Effects are removed without a Damage Effect
cleanup_attackDamageOnly(state) ==
    LET added == {Effect("Damage", e.source, e.value) :
                    e \in get_effects(state, [name |-> "AttackDamage"])}
        s1 == [prob |-> state.prob, effects |-> state.effects \cup added]
    IN  {remove_by_filter(s1, [e \in s1.effects |->
                                  e.name \in {"AttackDamage", "BonusDamage"}])}

\* AnalysisComponent._cleanup
cleanup(state) ==
    LET get_all_damage ==
            [e \in state.effects |-> e.name \in {"AttackDamage", "BonusDamage"}]
        added == {Effect("Damage", e.source, e.value) :
                    e \in get_by_filter(state, get_all_damage)}
        s1 == [prob |-> state.prob, effects |-> state.effects \cup added]
    IN  {remove_by_filter(s1, [e \in s1.effects |->
                                  e.name \in {"AttackDamage", "BonusDamage"}])}

\* DiceBonusComponent._add_dice, ResultBonusComponent._add_result,
\* ThresholdBonusComponent._add_threshold, BasicTraitComponent._add_trait,
\* RerollComponent._reroll, SkillComponent._pass_skill / _set_threshold:
\* one Effect is added
add_one(state, n, src, v) == {add_effect(state, Effect(n, src, v))}

-----------------------------------------------------------------------------
(* HGBModelDefs.py: SkillComponent *)

\* the probability of the input world is not multiplied in
add_skill_bonus_dropsInputProb(state) ==
    LET d == sum_effects(state, [name |-> "ModDice"]) - 1
        result_die == sum_effects(state, [name |-> "ModResult",
                                          source |-> "Result Die"])
        threshold == sum_effects(state, [name |-> "ModThreshold"])
        skill_probs == all_probs_threshold(d, result_die, threshold)
    IN  {add_effect(replace_prob(state, skill_probs[v]),
                    Effect("ModResult", "Skill", v)) : v \in DOMAIN skill_probs}

\* SkillComponent._add_skill_bonus
add_skill_bonus(state) ==
    LET d == sum_effects(state, [name |-> "ModDice"]) - 1
        result_die == sum_effects(state, [name |-> "ModResult",
                                          source |-> "Result Die"])
        threshold == sum_effects(state, [name |-> "ModThreshold"])
        skill_probs == all_probs_threshold(d, result_die, threshold)
    IN  {add_effect(replace_prob(state, RMul(skill_probs[v], state.prob)),
                    Effect("ModResult", "Skill", v)) : v \in DOMAIN skill_probs}

-----------------------------------------------------------------------------
(* HGBWeaponDefs.py: Haywire, Fire, Corrosion *)

\* _add_haywire, _add_fire, _add_corrosion: the pending damage (and the
\* status, for Haywire and Corrosion) of a hit on a model not yet destroyed
add_status(state, effs) ==
    IF get_effects(state, [name |-> "Miss"]) # {}
         \/ get_effects(state, [name |-> "Destroyed"]) # {}
    THEN {state}
    ELSE {[prob |-> state.prob, effects |-> state.effects \cup effs]}

\* _apply_haywire_damage, _apply_fire_damage, _apply_corrosion_damage: the
\* pending Effects named pending are rolled and replaced by BonusDamage from src
apply_status_damage(state, pending, src) ==
    LET n == sum_effects(state, [name |-> pending])
        dmg_probs == all_probs_threshold(n, D6, StatusThreshold)
        s1 == remove_effects(state, [name |-> pending])
        scaled(v) == replace_prob(s1, RMul(dmg_probs[v], s1.prob))
    IN  {IF v > 0
         THEN apply_damage(add_effect(scaled(v), Effect("BonusDamage", src, v)),
                           [name |-> "BonusDamage", source |-> src])
         ELSE scaled(v) : v \in DOMAIN dmg_probs}

-----------------------------------------------------------------------------
(* HGBWeaponDefs.py: AP.  HGBModelDefs.py: Agile, FieldArmor, Resist*,       *)
(* Speed, Stable, Lumbering                                                  *)

\* the pending marginal hit is left in place
ap_keepsMarginalHit(state, value) ==
    IF get_effects(state, [name |-> "Miss"]) # {} THEN {state}
    ELSE LET attack_damage == sum_effects(state, [name |-> "AttackDamage"])
             mos == sum_effects(state, [name |-> "MoS"])
             ap0 == Min(value, mos)
             ap_damage == IF ap0 = 0 THEN 1 ELSE ap0
         IN  IF ap_damage > attack_damage
             THEN {add_effect(state, Effect("AttackDamage", "AP",
                                            ap_damage - attack_damage))}
             ELSE {state}

\* APComponent._ap
ap(state, value) ==
    IF get_effects(state, [name |-> "Miss"]) # {} THEN {state}
    ELSE LET s1 == remove_effects(state, [name |-> "MarginalHit"])
             attack_damage == sum_effects(s1, [name |-> "AttackDamage"])
             mos == sum_effects(s1, [name |-> "MoS"])
             ap0 == Min(value, mos)
             ap_damage == IF ap0 = 0 THEN 1 ELSE ap0
         IN  IF ap_damage > attack_damage
             THEN {add_effect(s1, Effect("AttackDamage", "AP",
                                         ap_damage - attack_damage))}
             ELSE {s1}

\* the Hit is left in place next to the Miss
agile_keepsHit(state) ==
    IF sum_effects(state, [name |-> "MoS"]) = 0
    THEN {add_effect(state, Effect("Miss", "Agile", 1))}
    ELSE {state}

\* AgileComponent._agile
agile(state) ==
    IF sum_effects(state, [name |-> "MoS"]) = 0
    THEN {add_effect(remove_effects(state, [name |-> "Hit"]),
                     Effect("Miss", "Agile", 1))}
    ELSE {state}

\* the damage is reduced down to 0
reduce_damage_noMinimum(state) ==
    IF get_effects(state, [name |-> "Miss"]) # {} THEN {state}
    ELSE LET ap_damage == sum_effects(state, [name |-> "AttackDamage",
                                              source |-> "AP"])
             attack_damage ==
                 sum_by_filter(state, [e \in state.effects |->
                     e.name = "AttackDamage" /\ e.source # "AP"])
             s1 == add_effect(state, Effect("DamageDenied", "Field Armor", 1))
         IN  IF attack_damage + ap_damage <= 0 THEN {state}
             ELSE IF ap_damage # 0
             THEN LET s2 == remove_effects(s1, [name |-> "AttackDamage",
                                                source |-> "AP"])
                  IN  IF ap_damage > 1
                      THEN {add_effect(s2, Effect("AttackDamage", "AP",
                                                  ap_damage - 1))}
                      ELSE {s2}
             ELSE {add_effect(remove_effects(s1, [name |-> "AttackDamage",
                                                  source |-> "Base Rules"]),
                              Effect("AttackDamage", "Base Rules",
                                     attack_damage - 1))}

\* FieldArmorComponent._reduce_damage
reduce_damage(state) ==
    IF get_effects(state, [name |-> "Miss"]) # {} THEN {state}
    ELSE LET ap_damage == sum_effects(state, [name |-> "AttackDamage",
                                              source |-> "AP"])
             attack_damage ==
                 sum_by_filter(state, [e \in state.effects |->
                     e.name = "AttackDamage" /\ e.source # "AP"])
             s1 == add_effect(state, Effect("DamageDenied", "Field Armor", 1))
         IN  IF attack_damage + ap_damage <= 1 THEN {state}
             ELSE IF ap_damage # 0
             THEN LET s2 == remove_effects(s1, [name |-> "AttackDamage",
                                                source |-> "AP"])
                  IN  IF ap_damage > 1
                      THEN {add_effect(s2, Effect("AttackDamage", "AP",
                                                  ap_damage - 1))}
                      ELSE {s2}
             ELSE {add_effect(remove_effects(s1, [name |-> "AttackDamage",
                                                  source |-> "Base Rules"]),
                              Effect("AttackDamage", "Base Rules",
                                     attack_damage - 1))}

\* the value 0.5 of the DamageDenied Effect of ResistHaywire / ResistCorrosion
RHalf == Rat(1, 2)

\* the pending damage is left in place
resist_keepsPending(state, pending, src, value) ==
    IF get_effects(state, [name |-> pending]) = {} THEN {state}
    ELSE {add_effect(state, Effect("DamageDenied", src, value))}

\* ResistCorrosionComponent._resist, ResistHaywireComponent._resist, and the
\* end of ResistFireComponent._resist: the pending damage is removed and a
\* DamageDenied Effect is added
resist(state, pending, src, value) ==
    IF get_effects(state, [name |-> pending]) = {} THEN {state}
    ELSE {add_effect(remove_effects(state, [name |-> pending]),
                     Effect("DamageDenied", src, value))}

\* ResistFireComponent._resist: avg_damage, the expected damage of the fire
\* roll capped at the health left
avg_damage(state) ==
    LET health == sum_effects(state, [name |-> "Hull"])
                      + sum_effects(state, [name |-> "Structure"])
        fire == sum_effects(state, [name |-> "FireDamage"])
        fire_probs == all_probs_threshold(fire, D6, StatusThreshold)
    IN  RSum([dmg \in DOMAIN fire_probs |->
                 RMul(fire_probs[dmg], RInt(Min(dmg, health)))])

\* a member of the enum Roles as the source of an Effect: it equals no str
Roles(role) ==
    CASE role = "Attacker" -> "Roles.Attacker"
      [] role = "Defender" -> "Roles.Defender"
      [] OTHER -> "None"

\* Speed
Speeds == {"Combat", "Top", "Braced", "Immobilized"}

\* a role already recorded is replaced by the other role
set_speed_model_toggles(c) ==
    CASE c.model = "None" -> c.parent
      [] c.model = "Attacker" -> "Defender"
      [] OTHER -> "Attacker"

\* SpeedComponent._set_speed: self._model = self._parent._role
set_speed_model(c) == c.parent

\* SpeedComponent._set_speed: the Effect added
set_speed(state, c) ==
    {add_effect(state, Effect(c.speed, Roles(set_speed_model(c)), 1))}

\* SpeedComponent._speed_mod (with self._model None, mod is unbound and the
\* call raises: no world is returned)
speed_mod(state, c) ==
    LET eff(mod) == Effect("ModDice", c.model \o " " \o c.speed \o " Speed", mod)
    IN  CASE c.model = "Attacker" /\ c.speed \in {"Top", "Immobilized"} ->
                {add_effect(state, eff(-1))}
          [] c.model = "Attacker" /\ c.speed = "Braced" ->
                {add_effect(state, eff(1))}
          [] c.model = "Defender" /\ c.speed \in {"Braced", "Immobilized"} ->
                {add_effect(state, eff(-1))}
          [] c.model = "Defender" /\ c.speed = "Top" ->
                {add_effect(state, eff(1))}
          [] c.model \in {"Attacker", "Defender"} -> {state}
          [] OTHER -> {}

\* StableComponent._stable: the Speed Effects are looked up by the str
\* "Attacker"
stable(state) ==
    LET can_stable ==
            \/ get_effects(state, [name |-> "Combat", source |-> "Attacker"]) # {}
            \/ get_effects(state, [name |-> "Top", source |-> "Attacker"]) # {}
    IN  IF can_stable
        THEN {add_effect(state, Effect("ModDice", "Stable", 1))}
        ELSE {state}

\* LumberingComponent._lumbering: the Speed Effect is looked up by
\* Roles.Defender
lumbering(state) ==
    IF get_effects(state, [name |-> "Top", source |-> Roles("Defender")]) # {}
    THEN {add_effect(state, Effect("ModDice", "Lumbering", -1))}
    ELSE {state}

-----------------------------------------------------------------------------
(* gameObjects.py: Component.  A Component object is a record: its class     *)
(* (kind), the parameters given to __init__, and the keys of its _behaviors  *)
(* defaultdict.                                                              *)

\* the messages a Component of this class maps to a behavior in __init__
Registered(kind) ==
    CASE kind = "DiceRule" -> {"GATHER_DICE", "ROLL_DICE"}
      [] kind = "AttackRule" -> {"APPLY_HIT_MISS", "CALC_ATTACK_DAMAGE",
                                 "MOD_ATTACK_DAMAGE", "APPLY_ATTACK_DAMAGE"}
      [] kind = "Analysis" -> {"CLEANUP"}
      [] kind = "DiceBonus" -> {"GATHER_DICE"}
      [] kind = "ResultBonus" -> {"GATHER_RESULT_BONUSES"}
      [] kind = "ThresholdBonus" -> {"GATHER_THRESHOLD_BONUSES"}
      [] kind = "BasicTrait" -> {"INITIALIZE", "GATHER_MODEL_DATA"}
      [] kind = "Reroll" -> {"GATHER_DICE"}
      [] kind = "Skill" -> {"GetSkill", "GATHER_THRESHOLD_BONUSES", "ADD_SKILL"}
      [] kind = "Haywire" -> {"ADD_EXTRA_EFFECTS", "APPLY_EXTRA_DAMAGE"}
      [] kind = "Fire" -> {"ADD_EXTRA_EFFECTS", "APPLY_EXTRA_DAMAGE"}
      [] kind = "Corrosion" -> {"ADD_EXTRA_EFFECTS", "END_OF_ROUND"}
      [] kind = "AP" -> {"CALC_ATTACK_DAMAGE"}
      [] kind = "Agile" -> {"APPLY_HIT_MISS"}
      [] kind = "FieldArmor" -> {"MOD_ATTACK_DAMAGE"}
      [] kind \in {"ResistCorrosion", "ResistFire", "ResistHaywire"} ->
            {"ADD_EXTRA_EFFECTS"}
      [] kind = "Speed" -> {"INITIALIZE", "GATHER_DICE"}
      [] kind = "Stable" -> {"GATHER_DICE"}
      [] kind = "Lumbering" -> {"GATHER_DICE"}
      [] OTHER -> {}

\* Component.__init__ of the subclass kind (self._parent = None)
Component(kind, n, src, v) ==
    [kind |-> kind, name |-> n, source |-> src, value |-> v,
     keys |-> Registered(kind), parent |-> "None"]

DiceRuleComponent == Component("DiceRule", "", "", 0)
AttackRuleComponent == Component("AttackRule", "", "", 0)
AnalysisComponent == Component("Analysis", "", "", 0)
DiceBonusComponent(src, v) == Component("DiceBonus", "ModDice", src, v)
ResultBonusComponent(src, v) == Component("ResultBonus", "ModResult", src, v)
ThresholdBonusComponent(src, v) == Component("ThresholdBonus", "ModThreshold", src, v)
BasicTraitComponent(n, src, v) == Component("BasicTrait", n, src, v)
RerollComponent(rule) == Component("Reroll", rule, "Reroll", 1)
SkillComponent(v) == Component("Skill", "", "Skill", v)
HaywireComponent == Component("Haywire", "", "Haywire", 1)
FireComponent(v) == Component("Fire", "", "Fire", v)
CorrosionComponent == Component("Corrosion", "", "Corrosion", 1)
APComponent(v) == Component("AP", "", "AP", v)
AgileComponent == Component("Agile", "", "Agile", 1)
FieldArmorComponent == Component("FieldArmor", "", "Field Armor", 1)
ResistCorrosionComponent == Component("ResistCorrosion", "", "Resist Corrosion", 0)
ResistFireComponent == Component("ResistFire", "", "Resist Fire", 0)
ResistHaywireComponent == Component("ResistHaywire", "", "Resist Haywire", 0)
StableComponent == Component("Stable", "", "Stable", 1)
LumberingComponent == Component("Lumbering", "", "Lumbering", -1)

\* SpeedComponent.__init__: self._speed = speed, self._model = None
SpeedComponent(speed) ==
    Component("Speed", "", "", 0) @@ [speed |-> speed, model |-> "None"]

\* a default behavior that drops the world
null_behavior_empty(state) == {}

\* Component._null_behavior
null_behavior(state) == {state}

\* Component.valid_messages
Component_valid_messages(c) == c.keys

\* self._behaviors[msg](state): the behavior the class registered for msg,
\* the default one for any other message
Behavior(c, msg, state) ==
    IF msg \notin Registered(c.kind) THEN null_behavior(state)
    ELSE CASE c.kind = "DiceRule" ->
                 IF msg = "GATHER_DICE" THEN add_two(state) ELSE roll(state)
           [] c.kind = "AttackRule" ->
                 (CASE msg = "APPLY_HIT_MISS" -> hit_miss(state)
                    [] msg = "CALC_ATTACK_DAMAGE" -> calc_attack_damage(state)
                    [] msg = "MOD_ATTACK_DAMAGE" -> marginal_hit(state)
                    [] msg = "APPLY_ATTACK_DAMAGE" -> apply_attack_damage(state))
           [] c.kind = "Analysis" -> cleanup(state)
           [] c.kind \in {"DiceBonus", "ResultBonus", "ThresholdBonus",
                          "BasicTrait", "Reroll"} ->
                 add_one(state, c.name, c.source, c.value)
           [] c.kind = "Skill" ->
                 (CASE msg = "GetSkill" -> add_one(state, "GetSkill", "Skill", c.value)
                    [] msg = "GATHER_THRESHOLD_BONUSES" ->
                          add_one(state, "ModThreshold", "Skill", c.value)
                    [] msg = "ADD_SKILL" -> add_skill_bonus(state))
           [] c.kind = "Haywire" ->
                 IF msg = "ADD_EXTRA_EFFECTS"
                 THEN add_status(state, {Effect("Haywired", "Haywire", 1),
                                         Effect("HaywireDamage", "Haywire", 1)})
                 ELSE apply_status_damage(state, "HaywireDamage", "Haywire")
           [] c.kind = "Fire" ->
                 IF msg = "ADD_EXTRA_EFFECTS"
                 THEN add_status(state, {Effect("FireDamage", "Fire", c.value)})
                 ELSE apply_status_damage(state, "FireDamage", "Fire")
           [] c.kind = "Corrosion" ->
                 IF msg = "ADD_EXTRA_EFFECTS"
                 THEN add_status(state, {Effect("Corrosion", "Corrosion", 1),
                                         Effect("CorrosionDamage", "Corrosion", 1)})
                 ELSE apply_status_damage(state, "CorrosionDamage", "Corrosion")
           [] c.kind = "AP" -> ap(state, c.value)
           [] c.kind = "Agile" -> agile(state)
           [] c.kind = "FieldArmor" -> reduce_damage(state)
           [] c.kind = "ResistCorrosion" ->
                 resist(state, "CorrosionDamage", c.source, RHalf)
           [] c.kind = "ResistFire" ->
                 resist(state, "FireDamage", c.source, avg_damage(state))
           [] c.kind = "ResistHaywire" ->
                 resist(state, "HaywireDamage", c.source, RHalf)
           [] c.kind = "Speed" ->
                 IF msg = "INITIALIZE" THEN set_speed(state, c)
                 ELSE speed_mod(state, c)
           [] c.kind = "Stable" -> stable(state)
           [] c.kind = "Lumbering" -> lumbering(state)

\* Component.run: the worlds returned
Component_run(c, msg, state) == Behavior(c, msg, state)

\* Component.run: the Component afterwards (reading a defaultdict adds the
\* key; _set_speed assigns self._model)
Component_after_run(c, msg) ==
    LET c1 == [c EXCEPT !.keys = @ \cup {msg}]
    IN  IF c.kind = "Speed" /\ msg = "INITIALIZE"
        THEN [c1 EXCEPT !.model = set_speed_model(c)]
        ELSE c1

-----------------------------------------------------------------------------
(* gameObjects.py: Entity.  comps are the Component objects in the order     *)
(* they were added, subs[msg] the list _subscriptions[msg] (indices into     *)
(* comps), keys the keys of the _subscriptions defaultdict.                  *)

\* HGBEntity.__init__
HGBEntity(role) ==
    [role |-> role, comps |-> <<>>, subs |-> [m \in Messages |-> <<>>], keys |-> {}]

\* Entity.add_component
add_component(entity, c) ==
    LET i == Len(entity.comps) + 1
    IN  [entity EXCEPT
            !.comps = Append(@, [c EXCEPT !.parent = entity.role]),
            !.subs = [m \in Messages |->
                         IF m \in Component_valid_messages(c)
                         THEN Append(entity.subs[m], i) ELSE entity.subs[m]],
            !.keys = @ \cup Component_valid_messages(c)]

\* Entity.valid_messages
Entity_valid_messages(entity) == entity.keys

\* the worlds after the Components subs[msg][k..] have run on every world of
\* working, each on all the outputs of the one before
RECURSIVE pass_message_from(_, _, _, _)
pass_message_from(entity, msg, working, k) ==
    IF k > Len(entity.subs[msg]) THEN working
    ELSE pass_message_from(entity, msg,
             UNION {Component_run(entity.comps[entity.subs[msg][k]], msg, w) :
                       w \in working},
             k + 1)

\* Entity.pass_message: the frozenset returned
pass_message(entity, msg, state) == pass_message_from(entity, msg, {state}, 1)

\* Entity.pass_message: the Entity afterwards (reading a defaultdict adds the key)
Entity_after_pass_message(entity, msg) == [entity EXCEPT !.keys = @ \cup {msg}]

\* Scenario.pass_states
pass_states(entity, msg, states) ==
    IF msg \notin Entity_valid_messages(entity) THEN states
    ELSE UNION {pass_message(entity, msg, st) : st \in states}

\* Scenario.pass_states: the Entity afterwards, every Component subscribed
\* to msg having been run
Entity_after_pass_states(entity, msg, states) ==
    IF msg \notin Entity_valid_messages(entity) \/ states = {} THEN entity
    ELSE [Entity_after_pass_message(entity, msg) EXCEPT
             !.comps = [i \in DOMAIN @ |->
                           IF i \in Range(entity.subs[msg])
                           THEN Component_after_run(@[i], msg) ELSE @[i]]]

\* HGBRules.get_rules
get_rules ==
    add_component(add_component(HGBEntity("None"), AttackRuleComponent),
                  AnalysisComponent)

\* a frozenset iterated (results.extend(new_states)): some order of its elements
RECURSIVE SetToSeq(_)
SetToSeq(S) ==
    IF S = {} THEN <<>>
    ELSE LET x == CHOOSE y \in S : TRUE IN <<x>> \o SetToSeq(S \ {x})

\* list.pop(): the list without its last element
Front(seq) == SubSeq(seq, 1, Len(seq) - 1)

\* the swap forgets to empty the list of results
swap_keepsResults(working, results) == [working |-> results, results |-> results]

\* working, results = results, working
swap(working, results) == [working |-> results, results |-> working]

-----------------------------------------------------------------------------
(* HGBRules.py: make_model, Scenario, group_states *)

\* make_model: the Components are added in the order the set of Components
\* is iterated, given here as the list comps
RECURSIVE add_components(_, _)
add_components(entity, comps) ==
    IF comps = <<>> THEN entity
    ELSE add_components(add_component(entity, Head(comps)), Tail(comps))

make_model(comps, role) == add_components(HGBEntity(role), comps)

\* Scenario.__init__, lines 572-573: the dice rules are added to a model
Scenario_init_model(model) == add_component(model, DiceRuleComponent)

\* Scenario.__init__, line 578: the default starting world-set
default_start_states == {State(ROne, {})}

\* get_rolls: init_steps, and the Entities they are passed to
init_steps == <<"INITIALIZE", "CHECK_COVER">>
init_entities == <<"Base Rules", "Attacker", "Defender">>

\* get_rolls: pre_roll
pre_roll == <<"GATHER_DICE", "GATHER_RESULT_BONUSES", "GATHER_THRESHOLD_BONUSES">>

\* evaluate: the roll steps
roll_steps == <<"ROLL_DICE", "ADD_SKILL">>

\* the defender is given the attacker's worlds as well
side_calls_crossed ==
    <<[entity |-> "Base Rules", side |-> "att"], [entity |-> "Attacker", side |-> "att"],
      [entity |-> "Defender", side |-> "att"],
      [entity |-> "Base Rules", side |-> "def"], [entity |-> "Defender", side |-> "def"]>>

\* get_rolls / evaluate: the four pass_states calls of one pre-roll or roll
\* step, each an Entity and the world-set (side) it is given
side_calls ==
    <<[entity |-> "Base Rules", side |-> "att"], [entity |-> "Attacker", side |-> "att"],
      [entity |-> "Base Rules", side |-> "def"], [entity |-> "Defender", side |-> "def"]>>

\* the defender is asked before the attacker
entities_defenderFirst == <<"Base Rules", "Defender", "Attacker">>

\* evaluate: entities
entities == <<"Base Rules", "Attacker", "Defender">>

\* the skill bonus of the defender is left out of its roll
margin_defenderDieOnly(att_state, def_state) ==
    sum_effects(att_state, [name |-> "ModResult"])
        - sum_effects(def_state, [name |-> "ModResult", source |-> "Result Die"])

\* evaluate, lines 690-692: the margin of a pair of roll worlds
margin(att_state, def_state) ==
    sum_effects(att_state, [name |-> "ModResult"])
        - sum_effects(def_state, [name |-> "ModResult"])

\* the probability of a margin is overwritten by each pair, not accumulated
mos_probs_lastPairOnly(att, def) ==
    LET margins == {margin(a, d) : a \in att, d \in def}
    IN  [m \in margins |->
            LET pr == CHOOSE q \in att \X def : margin(q[1], q[2]) = m
            IN  RMul(pr[1].prob, pr[2].prob)]

\* evaluate, lines 687-693: mos_probs
mos_probs(att, def) ==
    LET margins == {margin(a, d) : a \in att, d \in def}
    IN  [m \in margins |->
            RSum([pr \in {q \in att \X def : margin(q[1], q[2]) = m} |->
                     RMul(pr[1].prob, pr[2].prob)])]

\* evaluate, lines 695-699: mos_states
make_mos_states(att, def) ==
    LET probs == mos_probs(att, def)
    IN  {State(probs[m], {Effect("MoS", "Base Rules", m)}) : m \in DOMAIN probs}

\* the sum of the probabilities of a collection of States
total_prob(states) == RSum([st \in states |-> st.prob])

\* group_states with key = effect_value_key(**kwargs)
group_states(states, kwargs) ==
    LET keys == {sum_effects(st, kwargs) : st \in states}
    IN  [k \in keys |-> total_prob({st \in states : sum_effects(st, kwargs) = k})]

-----------------------------------------------------------------------------
(* HGBDiceStats.py *)

\* Analysis(name, description, datatype, effect_params, split_by_source)
Analysis(n, datatype, effect_params, split_by_source) ==
    [name |-> n, datatype |-> datatype, effect_params |-> effect_params,
     split_by_source |-> split_by_source]

\* the scale argument left out (scale=None)
NoScale == <<>>

\* Decimal(1) / x
RInv(x) == Rat(x[2], x[1])

\* make_normals(totals, scale)
make_normals(totals, scale) ==
    LET normalized_totals == {v \in DOMAIN totals : v > 0}
        total_probs == RSumOver(totals, normalized_totals)
        sc == IF scale = NoScale \/ scale[1] = 0
              THEN RInv(IF total_probs = RZero THEN ROne ELSE total_probs)
              ELSE scale
    IN  [v \in normalized_totals |-> RMul(totals[v], sc)]

\* the sum runs over the keys above val only
make_mins_strictlyAbove(totals) ==
    [v \in DOMAIN totals |->
        RSumOver(totals, {t_val \in DOMAIN totals : t_val > v})]

\* make_mins(totals)
make_mins(totals) ==
    [v \in DOMAIN totals |->
        RSumOver(totals, {t_val \in DOMAIN totals : t_val >= v})]

\* SourceResult(source, type, totals, average, normalized_totals,
\* normalized_average), with min_totals set for a RANGE analysis
SourceResult(source, type, totals, scale) ==
    LET normalized_totals == make_normals(totals, scale)
    IN  [source |-> source, type |-> type, totals |-> totals,
         average |-> expected(totals),
         normalized_totals |-> normalized_totals,
         normalized_average |-> expected(normalized_totals),
         min_totals |-> IF type = "RANGE" THEN make_mins(totals) ELSE <<>>]

\* every source is scaled by its own success probability
do_analysis_ownScale(states, analysis) ==
    LET params == analysis.effect_params
        own(totals) ==
            LET p == RSumOver(totals, {v \in DOMAIN totals : v > 0})
            IN  RInv(IF p = RZero THEN ROne ELSE p)
        sources == {eff.source : eff \in UNION {get_effects(state, params) :
                                                  state \in states}}
        by(source) == group_states(states, [name |-> params.name,
                                            source |-> source])
        all == group_states(states, params)
    IN  [name |-> analysis.name, type |-> analysis.datatype,
         sources |->
            [s \in {"All"} \cup (IF analysis.split_by_source THEN sources ELSE {}) |->
                IF s = "All"
                THEN SourceResult("All", analysis.datatype, all, own(all))
                ELSE SourceResult(s, analysis.datatype, by(s), own(by(s)))]]

\* a success probability of 0 is not replaced by 1: Decimal(1) / Decimal(0)
\* raises
do_analysis_noZeroGuard(states, analysis) ==
    LET params == analysis.effect_params
        totals == group_states(states, params)
        success_probs == RSumOver(totals, {v \in DOMAIN totals : v > 0})
        sources == {eff.source : eff \in UNION {get_effects(state, params) :
                                                  state \in states}}
    IN  IF success_probs = RZero
        THEN [name |-> analysis.name, type |-> analysis.datatype,
              sources |-> <<>>, raised |-> "DivisionByZero"]
        ELSE [name |-> analysis.name, type |-> analysis.datatype,
              sources |->
                 [s \in {"All"} \cup (IF analysis.split_by_source THEN sources ELSE {}) |->
                     IF s = "All"
                     THEN SourceResult("All", analysis.datatype, totals,
                                       RInv(success_probs))
                     ELSE SourceResult(s, analysis.datatype,
                                       group_states(states, [name |-> params.name,
                                                             source |-> s]),
                                       RInv(success_probs))]]

\* do_analysis(states, analysis)
do_analysis(states, analysis) ==
    LET params == analysis.effect_params
        totals == group_states(states, params)
        success_sum == RSumOver(totals, {v \in DOMAIN totals : v > 0})
        success_probs == IF success_sum = RZero THEN ROne ELSE success_sum
        scale == RInv(success_probs)
        sources == {eff.source : eff \in UNION {get_effects(state, params) :
                                                  state \in states}}
    IN  [name |-> analysis.name, type |-> analysis.datatype,
         sources |->
            [s \in {"All"} \cup (IF analysis.split_by_source THEN sources ELSE {}) |->
                IF s = "All"
                THEN SourceResult("All", analysis.datatype, totals, scale)
                ELSE SourceResult(s, analysis.datatype,
                                  group_states(states, [name |-> params.name,
                                                        source |-> s]),
                                  scale)]]

-----------------------------------------------------------------------------
(* Specification of the dice functions: the arguments are drawn in the      *)
(* initial state and each action is one call.                               *)

IdleDice ==
    /\ dice = 0 /\ sides = 0 /\ val = 0
    /\ dOp = "off" /\ dPdf = <<>>

IdleState == heap = <<>> /\ call = [op |-> "off"]

IdleEntity == ent = <<>> /\ pm = [pc |-> "off"] /\ eCall = [op |-> "off"]

IdleScenario ==
    /\ base_rules = <<>> /\ attacker = <<>> /\ defender = <<>>
    /\ start_states = {} /\ att_rolls = {} /\ def_rolls = {} /\ mos_states = {}
    /\ pc = [phase |-> "off"] /\ log = <<>> /\ grouped = <<>>
    /\ res = <<>> /\ returned = <<>>

InitDice ==
    /\ IdleState /\ IdleEntity /\ IdleScenario
    /\ dice \in -1..MaxDice
    /\ sides \in 1..MaxSides
    /\ val \in -1..MaxVal
    /\ dOp = "idle"
    /\ dPdf = <<>>

Call_all_probs_high_die ==
    /\ dOp = "idle"
    /\ dice >= 0
    /\ dPdf' = all_probs_high_die(dice, sides)
    /\ dOp' = "all_probs_high_die"
    /\ UNCHANGED <<dice, sides, val, varsState, varsEntity, varsScenario>>

Call_all_probs_threshold ==
    /\ dOp = "idle"
    /\ dPdf' = all_probs_threshold(dice, sides, val)
    /\ dOp' = "all_probs_threshold"
    /\ UNCHANGED <<dice, sides, val, varsState, varsEntity, varsScenario>>

\* all_probs_brute_force_max_roll(dice): with no dice max() is given an
\* empty tuple, with a negative number product() refuses it; both raise
\* ValueError.  The six faces are built into the function: it is called
\* where the dice under study have six faces.
Call_all_probs_brute_force_max_roll ==
    /\ dOp = "idle"
    /\ sides = D6
    /\ IF dice >= 1
       THEN /\ dPdf' = all_probs_brute_force_max_roll(dice)
            /\ dOp' = "all_probs_brute_force_max_roll"
       ELSE /\ dPdf' = <<>>
            /\ dOp' = "ValueError"
    /\ UNCHANGED <<dice, sides, val, varsState, varsEntity, varsScenario>>

NextDice ==
    \/ Call_all_probs_high_die
    \/ Call_all_probs_threshold
    \/ Call_all_probs_brute_force_max_roll

SpecDice == InitDice /\ [][NextDice]_vars

-----------------------------------------------------------------------------
(* Specification of the State methods: State objects live in a heap, each   *)
(* action is one method call on one of them.                                *)

StEffects ==
    {Effect("ModDice", "Base Rules", 2), Effect("ModDice", "Custom", 2),
     Effect("ModDice", "Custom", 1), Effect("Hull", "Custom", 2)}

StKwargs ==
    {<<>>, [name |-> "ModDice"], [name |-> "Hull"], [source |-> "Custom"],
     [name |-> "ModDice", source |-> "Base Rules"]}

StNameSets == {{"ModDice"}, {"ModDice", "Hull"}}

\* the receivers of a call: the original State or the latest one
Receivers == {1, Len(heap)}

\* predicates of the kind the rules use: "the name is one of ..."
StPred(state, names) == [e \in state.effects |-> e.name \in names]

InitState ==
    /\ IdleDice /\ IdleEntity /\ IdleScenario
    /\ \E p \in {ROne, <<1, 2>>} : heap = <<State(p, {})>>
    /\ call = [op |-> "init", recv |-> 0, arg |-> None, ret |-> 0]

Do_add_effect ==
    \E i \in Receivers, e \in StEffects \cup {None} :
        /\ Len(heap) < MaxObjs
        /\ LET r == State_add_effect(heap, i, e)
           IN  /\ heap' = r.heap
               /\ call' = [op |-> "add_effect", recv |-> i, arg |-> e, ret |-> r.ret]
        /\ UNCHANGED <<varsDice, varsEntity, varsScenario>>

Do_remove_effects ==
    \E i \in Receivers, kw \in StKwargs :
        /\ Len(heap) < MaxObjs
        /\ LET r == State_remove_effects(heap, i, kw)
           IN  /\ heap' = r.heap
               /\ call' = [op |-> "remove_effects", recv |-> i, arg |-> kw,
                           ret |-> r.ret]
        /\ UNCHANGED <<varsDice, varsEntity, varsScenario>>

Do_remove_by_filter ==
    \E i \in Receivers, names \in StNameSets :
        /\ Len(heap) < MaxObjs
        /\ LET r == State_remove_by_filter(heap, i, StPred(heap[i], names))
           IN  /\ heap' = r.heap
               /\ call' = [op |-> "remove_by_filter", recv |-> i, arg |-> names,
                           ret |-> r.ret]
        /\ UNCHANGED <<varsDice, varsEntity, varsScenario>>

Do_sum_effects ==
    \E i \in Receivers, kw \in StKwargs :
        /\ call' = [op |-> "sum_effects", recv |-> i, arg |-> kw,
                    ret |-> sum_effects(heap[i], kw)]
        /\ UNCHANGED <<heap, varsDice, varsEntity, varsScenario>>

NextState ==
    \/ Do_add_effect
    \/ Do_remove_effects
    \/ Do_remove_by_filter
    \/ Do_sum_effects

SpecState == InitState /\ [][NextState]_vars

-----------------------------------------------------------------------------
(* Specification of one Entity: Components are added to it, and it is sent  *)
(* messages with Entity.pass_message (modelled one loop iteration at a      *)
(* time), Component.run and Scenario.pass_states.                           *)

\* the Components that may be added
EntPool ==
    {DiceRuleComponent, DiceBonusComponent("Custom", 1), HaywireComponent,
     FireComponent(2)}

\* the messages sent: CLEANUP is registered by no Component of the pool
EntMessages == {"GATHER_DICE", "ROLL_DICE", "APPLY_EXTRA_DAMAGE", "CLEANUP"}

\* the worlds sent
EntWorlds ==
    {State(ROne, {}),
     State(<<1, 2>>, {Effect("Hit", "Base Rules", 1), Effect("Hull", "Hull", 2),
                      Effect("Structure", "Structure", 2),
                      Effect("HaywireDamage", "Haywire", 1),
                      Effect("FireDamage", "Fire", 2)})}

PmIdle == [pc |-> "idle", msg |-> "", input |-> None, list |-> <<>>, k |-> 0,
           working |-> <<>>, results |-> <<>>, ins |-> <<>>, outs |-> <<>>,
           ret |-> {}]

ECallIdle == [op |-> "idle", msg |-> "", comp |-> 0, arg |-> {}, ret |-> {}]

InitEntity ==
    /\ IdleDice /\ IdleState /\ IdleScenario
    /\ ent = HGBEntity("Attacker")
    /\ pm = PmIdle
    /\ eCall = ECallIdle

\* the Entity is built first and then sent one message
NoCallYet == pm.pc = "idle" /\ eCall.op = "idle"

\* Entity.add_component
AddComponent ==
    \E c \in EntPool :
        /\ NoCallYet
        /\ Len(ent.comps) < MaxComps
        /\ ent' = add_component(ent, c)
        /\ UNCHANGED <<pm, eCall, varsDice, varsState, varsScenario>>

\* Entity.pass_message, lines 152-154: the lists and the subscription list
PassMessage_Call ==
    \E msg \in EntMessages, w \in EntWorlds :
        /\ NoCallYet
        /\ ent' = Entity_after_pass_message(ent, msg)
        /\ pm' = [pc |-> "loop", msg |-> msg, input |-> w, list |-> ent.subs[msg],
                  k |-> 1, working |-> <<w>>, results |-> <<>>,
                  ins |-> [i \in DOMAIN ent.subs[msg] |-> <<>>],
                  outs |-> [i \in DOMAIN ent.subs[msg] |-> <<>>],
                  ret |-> {}]
        /\ UNCHANGED <<eCall, varsDice, varsState, varsScenario>>

\* Entity.pass_message, lines 155-157: one iteration of the while loop
PassMessage_Run ==
    /\ pm.pc = "loop"
    /\ pm.k <= Len(pm.list)
    /\ pm.working # <<>>
    /\ LET i == pm.list[pm.k]
           w == pm.working[Len(pm.working)]
           new_states == SetToSeq(Component_run(ent.comps[i], pm.msg, w))
       IN  /\ pm' = [pm EXCEPT !.working = Front(@),
                               !.results = @ \o new_states,
                               !.ins[pm.k] = Append(@, w),
                               !.outs[pm.k] = @ \o new_states]
           /\ ent' = [ent EXCEPT !.comps[i] = Component_after_run(@, pm.msg)]
    /\ UNCHANGED <<eCall, varsDice, varsState, varsScenario>>

\* Entity.pass_message, line 158: the while loop is over, the lists are swapped
PassMessage_Swap ==
    /\ pm.pc = "loop"
    /\ pm.k <= Len(pm.list)
    /\ pm.working = <<>>
    /\ LET sw == swap(pm.working, pm.results)
       IN  pm' = [pm EXCEPT !.working = sw.working, !.results = sw.results,
                            !.k = @ + 1]
    /\ UNCHANGED <<ent, eCall, varsDice, varsState, varsScenario>>

\* Entity.pass_message, line 159
PassMessage_Return ==
    /\ pm.pc = "loop"
    /\ pm.k > Len(pm.list)
    /\ pm' = [pm EXCEPT !.pc = "done", !.ret = Range(pm.working)]
    /\ UNCHANGED <<ent, eCall, varsDice, varsState, varsScenario>>

\* Component.run called on a Component of the Entity
Run_Call ==
    \E i \in DOMAIN ent.comps, msg \in EntMessages, w \in EntWorlds :
        /\ NoCallYet
        /\ eCall' = [op |-> "run", msg |-> msg, comp |-> i, arg |-> w,
                     ret |-> Component_run(ent.comps[i], msg, w)]
        /\ ent' = [ent EXCEPT !.comps[i] = Component_after_run(@, msg)]
        /\ UNCHANGED <<pm, varsDice, varsState, varsScenario>>

\* Scenario.pass_states called with the Entity
PassStates_Call ==
    \E msg \in EntMessages, states \in (SUBSET EntWorlds) \ {{}} :
        /\ NoCallYet
        /\ eCall' = [op |-> "pass_states", msg |-> msg, comp |-> 0, arg |-> states,
                     ret |-> pass_states(ent, msg, states)]
        /\ ent' = IF msg \in Entity_valid_messages(ent)
                  THEN Entity_after_pass_message(ent, msg) ELSE ent
        /\ UNCHANGED <<pm, varsDice, varsState, varsScenario>>

NextEntity ==
    \/ AddComponent
    \/ PassMessage_Call
    \/ PassMessage_Run
    \/ PassMessage_Swap
    \/ PassMessage_Return
    \/ Run_Call
    \/ PassStates_Call

SpecEntity == InitEntity /\ [][NextEntity]_vars

-----------------------------------------------------------------------------
(* Specification of the damage rules: a hit world with its pending          *)
(* AttackDamage Effects is given to apply_damage, one source after the      *)
(* other, or to AttackRuleComponent._apply_attack_damage.                   *)

\* the pending AttackDamage Effects of a hit world after MOD_ATTACK_DAMAGE:
\* the base damage alone, a base damage of 0 with the marginal hit, or the
\* base damage with the extra damage of an armor-piercing weapon (which
\* removes the pending marginal hit)
PendingDamage ==
    {{Effect("AttackDamage", "Base Rules", d)} : d \in 0..MaxPending}
    \cup {{Effect("AttackDamage", "Base Rules", 0),
           Effect("AttackDamage", "Marginal Hit", 1)}}
    \cup {{Effect("AttackDamage", "Base Rules", d), Effect("AttackDamage", "AP", a)} :
             d \in 0..MaxPending, a \in 1..MaxAP}

\* the least MoS of a hit world with these pending Effects: the damage of
\* an armor-piercing weapon is min(AP value, MoS), so base damage + AP
\* damage <= MoS
mos_of_pending(pending) ==
    IF \E e \in pending : e.source = "AP" THEN sum_values(pending) ELSE 0

\* a hit world with its pending damage, or a miss world (MoS -1), which has
\* no pending damage (_calc_attack_damage and APComponent._ap add none)
InitDamage ==
    /\ IdleDice /\ IdleEntity /\ IdleScenario
    /\ \E p \in {ROne, <<1, 2>>}, h \in 1..MaxHull, st \in 1..MaxStructure,
          pending \in PendingDamage \cup {{}} :
          heap = <<State(p, {Effect("MoS", "Base Rules",
                                    IF pending = {} THEN -1
                                    ELSE mos_of_pending(pending)),
                             Effect(IF pending = {} THEN "Miss" ELSE "Hit",
                                    "Base Rules", 1),
                             Effect("Hull", "Hull", h),
                             Effect("Structure", "Structure", st)} \cup pending)>>
    /\ call = [op |-> "init", recv |-> 0, arg |-> None, ret |-> 0, order |-> 0]

\* apply_damage(state, filter) for the AttackDamage of one source; the
\* sources are taken in the order of damage_order, each at most once.  The
\* state is returned as it is when it is Destroyed or no Effect is selected.
Call_apply_damage ==
    \E i \in DOMAIN damage_order :
        /\ call.op \in {"init", "apply_damage"}
        /\ i > call.order
        /\ Len(heap) < MaxObjs
        /\ LET state == heap[Len(heap)]
               filter == [name |-> "AttackDamage", source |-> damage_order[i]]
               same == get_effects(state, [name |-> "Destroyed"]) # {}
                           \/ get_effects(state, filter) = {}
           IN  /\ heap' = IF same THEN heap
                          ELSE Append(heap, apply_damage(state, filter))
               /\ call' = [op |-> "apply_damage", recv |-> Len(heap),
                           arg |-> filter,
                           ret |-> IF same THEN Len(heap) ELSE Len(heap) + 1,
                           order |-> i]
        /\ UNCHANGED <<varsDice, varsEntity, varsScenario>>

\* AttackRuleComponent._apply_attack_damage on the world
Call_apply_attack_damage ==
    /\ call.op = "init"
    /\ LET out == apply_attack_damage(heap[1])
       IN  /\ heap' = Append(heap, CHOOSE w \in out : TRUE)
           /\ call' = [op |-> "apply_attack_damage", recv |-> 1, arg |-> None,
                       ret |-> 2, order |-> Len(damage_order)]
    /\ UNCHANGED <<varsDice, varsEntity, varsScenario>>

NextDamage ==
    \/ Call_apply_damage
    \/ Call_apply_attack_damage

SpecDamage == InitDamage /\ [][NextDamage]_vars

-----------------------------------------------------------------------------
(* Specification of the roll: a pre-roll world with its ModDice Effects and *)
(* its reroll rule is given to DiceRuleComponent._roll.                     *)

\* the ModDice Effects of a pre-roll world: the two dice of the base rules,
\* and possibly a custom modifier and the penalty of a Crippled model
PreRollDice ==
    {{Effect("ModDice", "Base Rules", 2)} \cup custom \cup crippled :
        custom \in {{}} \cup {{Effect("ModDice", "Custom", c)} :
                                c \in -3..(MaxDice - 2)},
        crippled \in {{}, {Effect("ModDice", "Crippled", -1)}}}

\* the Effect of the RerollComponent of the model, if it has one
PreRollRerolls ==
    {{}, {Effect("Never", "Reroll", 1)}, {Effect("BelowAverage", "Reroll", 1)}}

\* the ModThreshold Effects of a pre-roll world: the skill of the model, and
\* possibly the ANN trait or a custom threshold modifier
PreRollThresholds ==
    {{Effect("ModThreshold", "Skill", 4)} \cup bonus :
        bonus \in {{}, {Effect("ModThreshold", "ANN", -1)},
                   {Effect("ModThreshold", "Custom", -3)},
                   {Effect("ModThreshold", "Custom", -4)}}}

InitRoll ==
    /\ IdleDice /\ IdleEntity /\ IdleScenario
    /\ \E p \in {ROne, <<1, 2>>}, mods \in PreRollDice, reroll \in PreRollRerolls :
          heap = <<State(p, mods \cup reroll
                               \cup {Effect("ModThreshold", "Skill", 4)})>>
    /\ call = [op |-> "init", recv |-> 0, arg |-> None, ret |-> {}]

\* DiceRuleComponent._roll on the world
Call_roll ==
    /\ call.op = "init"
    /\ call' = [op |-> "roll", recv |-> 1, arg |-> None, ret |-> roll(heap[1])]
    /\ UNCHANGED <<heap, varsDice, varsEntity, varsScenario>>

NextRoll == Call_roll

SpecRoll == InitRoll /\ [][NextRoll]_vars

-----------------------------------------------------------------------------
(* Specification of the skill bonus: a world that DiceRuleComponent._roll   *)
(* returned for a pre-roll world of probability 1 is given to               *)
(* SkillComponent._add_skill_bonus.                                         *)

InitSkill ==
    /\ IdleDice /\ IdleEntity /\ IdleScenario
    /\ \E mods \in PreRollDice, thresholds \in PreRollThresholds :
          \E rolled \in roll(State(ROne, mods \cup thresholds)) :
              heap = <<rolled>>
    /\ call = [op |-> "init", recv |-> 0, arg |-> None, ret |-> {}]

\* SkillComponent._add_skill_bonus on the world
Call_add_skill_bonus ==
    /\ call.op = "init"
    /\ call' = [op |-> "add_skill_bonus", recv |-> 1, arg |-> None,
                ret |-> add_skill_bonus(heap[1])]
    /\ UNCHANGED <<heap, varsDice, varsEntity, varsScenario>>

NextSkill == Call_add_skill_bonus

SpecSkill == InitSkill /\ [][NextSkill]_vars

-----------------------------------------------------------------------------
(* Specification of one Scenario: the attacker and the defender are built   *)
(* by make_model as HGBOpposedWindow.make_scenario does, Scenario.__init__  *)
(* has run, and evaluate() runs one pass_states call at a time, followed by *)
(* a group_states call on the worlds it returns.                            *)

\* the traits of the weapon besides its damage
WpnTraits ==
    {<<>>, <<FireComponent(1)>>, <<CorrosionComponent>>,
     <<HaywireComponent, FireComponent(2)>>}

\* the dice modifiers of the attacker and of the defender
AttDiceMods == {-2, 0}
DefDiceMods == {-1, 0}

\* the reroll rules of the attacker
AttRerolls == {"Never", "BelowAverage"}

\* the armor and the structure of the defender (the damage depends on the
\* armor through WeaponDamage - Armor only, which the weapon damage varies)
DefArmors == {2}
DefStructures == {1}

Reverse(seq) == [i \in DOMAIN seq |-> seq[Len(seq) + 1 - i]]

\* make_model: a set of Components is iterated in some order
Orders(seq) == {seq, Reverse(seq)}

\* make_scenario: the Components of the attacker (weapon, then model)
att_components(wpn_damage, wpn_traits, att_dice_mod, att_reroll) ==
    wpn_traits \o
    <<BasicTraitComponent("WeaponDamage", "DAM", wpn_damage),
      SkillComponent(4),
      DiceBonusComponent("Custom", att_dice_mod),
      RerollComponent(att_reroll)>>

\* make_scenario: the Components of the defender
def_components(def_armor, def_hull, def_structure, def_dice_mod) ==
    <<SkillComponent(4),
      BasicTraitComponent("Armor", "Armor", def_armor),
      BasicTraitComponent("Hull", "Hull", def_hull),
      BasicTraitComponent("Structure", "Structure", def_structure),
      DiceBonusComponent("Custom", def_dice_mod),
      RerollComponent("Never")>>

PcAt(phase, step, k) == [phase |-> phase, step |-> step, call |-> k]

Init ==
    /\ IdleDice /\ IdleState /\ IdleEntity
    /\ \E wpn_damage \in 1..MaxDamage, wpn_traits \in WpnTraits,
          att_dice_mod \in AttDiceMods, att_reroll \in AttRerolls :
          \E order \in Orders(att_components(wpn_damage, wpn_traits,
                                             att_dice_mod, att_reroll)) :
             attacker = Scenario_init_model(make_model(order, "Attacker"))
    /\ \E def_armor \in DefArmors, def_hull \in 1..MaxHull,
          def_structure \in DefStructures, def_dice_mod \in DefDiceMods :
          defender = Scenario_init_model(
                         make_model(def_components(def_armor, def_hull,
                                                   def_structure, def_dice_mod),
                                    "Defender"))
    /\ base_rules = get_rules
    /\ start_states = default_start_states
    /\ att_rolls = {} /\ def_rolls = {} /\ mos_states = {}
    /\ pc = PcAt("init", 1, 1)
    /\ log = <<>>
    /\ grouped = <<>>
    /\ res = <<>>
    /\ returned = <<>>

\* the Entity object of a Scenario by its role
EntityOf(who) ==
    CASE who = "Base Rules" -> base_rules
      [] who = "Attacker" -> attacker
      [] who = "Defender" -> defender

\* the position after call k of step i, in a phase of n_steps steps of
\* n_calls calls each, followed by the phase next
Advance(phase, n_steps, n_calls, next) ==
    IF pc.call < n_calls THEN PcAt(phase, pc.step, pc.call + 1)
    ELSE IF pc.step < n_steps THEN PcAt(phase, pc.step + 1, 1)
    ELSE PcAt(next, 1, 1)

\* the record of one pass_states call: the step, the Entity, the world-set
\* given (side), whether the Entity has a Component for the step, and the
\* number of worlds given and returned
LogEntry(step, who, side, states) ==
    [step |-> step, entity |-> who, side |-> side,
     handled |-> step \in Entity_valid_messages(EntityOf(who)) /\ states # {},
     n_in |-> Cardinality(states),
     n_out |-> Cardinality(pass_states(EntityOf(who), step, states))]

\* the Entity objects after the pass_states call on who
Called(who, step, states) ==
    /\ base_rules' = IF who = "Base Rules"
                     THEN Entity_after_pass_states(base_rules, step, states)
                     ELSE base_rules
    /\ attacker' = IF who = "Attacker"
                   THEN Entity_after_pass_states(attacker, step, states)
                   ELSE attacker
    /\ defender' = IF who = "Defender"
                   THEN Entity_after_pass_states(defender, step, states)
                   ELSE defender

\* get_rolls, lines 609-615: one pass_states call of the init_steps loop
GetRolls_InitStep ==
    /\ pc.phase = "init"
    /\ LET step == init_steps[pc.step]
           who == init_entities[pc.call]
       IN  /\ start_states' = pass_states(EntityOf(who), step, start_states)
           /\ log' = Append(log, LogEntry(step, who, "start", start_states))
           /\ Called(who, step, start_states)
    /\ pc' = Advance("init", Len(init_steps), Len(init_entities), "skill")
    /\ UNCHANGED <<att_rolls, def_rolls,
                   mos_states, grouped, res, returned, varsDice, varsState, varsEntity>>

\* get_rolls, lines 616-621: the two GetSkill calls
GetRolls_GetSkill ==
    /\ pc.phase = "skill"
    /\ IF pc.call = 1
       THEN /\ att_rolls' = pass_states(attacker, "GetSkill", start_states)
            /\ log' = Append(log, LogEntry("GetSkill", "Attacker", "att", start_states))
            /\ Called("Attacker", "GetSkill", start_states)
            /\ UNCHANGED def_rolls
       ELSE /\ def_rolls' = pass_states(defender, "GetSkill", start_states)
            /\ log' = Append(log, LogEntry("GetSkill", "Defender", "def", start_states))
            /\ Called("Defender", "GetSkill", start_states)
            /\ UNCHANGED att_rolls
    /\ pc' = Advance("skill", 1, 2, "pre_roll")
    /\ UNCHANGED <<start_states, mos_states,
                   grouped, res, returned, varsDice, varsState, varsEntity>>

\* one pass_states call of a step that is run for each side on its own
SideCall(step) ==
    LET c == side_calls[pc.call]
    IN  IF c.side = "att"
        THEN /\ att_rolls' = pass_states(EntityOf(c.entity), step, att_rolls)
             /\ log' = Append(log, LogEntry(step, c.entity, "att", att_rolls))
             /\ Called(c.entity, step, att_rolls)
             /\ UNCHANGED def_rolls
        ELSE /\ def_rolls' = pass_states(EntityOf(c.entity), step, def_rolls)
             /\ log' = Append(log, LogEntry(step, c.entity, "def", def_rolls))
             /\ Called(c.entity, step, def_rolls)
             /\ UNCHANGED att_rolls

\* get_rolls, lines 623-635: one pass_states call of the pre_roll loop
GetRolls_PreRoll ==
    /\ pc.phase = "pre_roll"
    /\ SideCall(pre_roll[pc.step])
    /\ pc' = Advance("pre_roll", Len(pre_roll), Len(side_calls), "roll")
    /\ UNCHANGED <<start_states, mos_states,
                   grouped, res, returned, varsDice, varsState, varsEntity>>

\* evaluate, lines 672-684: one pass_states call of the roll loop
Evaluate_Roll ==
    /\ pc.phase = "roll"
    /\ SideCall(roll_steps[pc.step])
    /\ pc' = Advance("roll", Len(roll_steps), Len(side_calls), "mos")
    /\ UNCHANGED <<start_states, mos_states,
                   grouped, res, returned, varsDice, varsState, varsEntity>>

\* evaluate, lines 686-699: the pairs of roll worlds become the MoS worlds
Evaluate_MoS ==
    /\ pc.phase = "mos"
    /\ mos_states' = make_mos_states(att_rolls, def_rolls)
    /\ pc' = PcAt("resolve", 1, 1)
    /\ UNCHANGED <<base_rules, attacker, defender, start_states, att_rolls,
                   def_rolls, log, grouped, res, returned, varsDice, varsState,
                   varsEntity>>

\* evaluate, lines 701-708: one pass_states call of the resolve loop
Evaluate_Resolve ==
    /\ pc.phase = "resolve"
    /\ LET step == ResolveTimeSteps[pc.step]
           who == entities[pc.call]
       IN  /\ mos_states' = pass_states(EntityOf(who), step, mos_states)
           /\ log' = Append(log, LogEntry(step, who, "mos", mos_states))
           /\ Called(who, step, mos_states)
    /\ pc' = Advance("resolve", Len(ResolveTimeSteps), Len(entities), "return")
    /\ UNCHANGED <<start_states, att_rolls,
                   def_rolls, grouped, res, returned, varsDice, varsState, varsEntity>>

\* evaluate, line 710
Evaluate_Return ==
    /\ pc.phase = "return"
    /\ pc' = PcAt("done", 1, 1)
    /\ returned' = Append(returned, mos_states)
    /\ UNCHANGED <<base_rules, attacker, defender, start_states, att_rolls,
                   def_rolls, mos_states, log, grouped, res, varsDice, varsState,
                   varsEntity>>

\* the keys group_states is called with: effect_value_key(**kwargs)
GroupKeys ==
    {[name |-> "MoS"], [name |-> "Damage"], [name |-> "Hit"],
     [name |-> "Destroyed"], [name |-> "Damage", source |-> "Base Rules"]}

\* group_states called on the worlds evaluate returned
GroupStates ==
    \E kwargs \in GroupKeys :
        /\ pc.phase = "done"
        /\ grouped' = [key |-> kwargs, pdf |-> group_states(mos_states, kwargs)]
        /\ pc' = PcAt("grouped", 1, 1)
        /\ UNCHANGED <<base_rules, attacker, defender, start_states, att_rolls,
                       def_rolls, mos_states, log, res, returned, varsDice, varsState,
                       varsEntity>>

\* the analyses of BASIC_ANALYSES and STATUS_ANALYSES run on the outcomes
Analyses ==
    {Analysis("MoS", "RANGE", [name |-> "MoS"], FALSE),
     Analysis("Hit", "BOOL", [name |-> "Hit"], FALSE),
     Analysis("Miss", "BOOL", [name |-> "Miss"], TRUE),
     Analysis("Damage", "RANGE", [name |-> "Damage"], TRUE),
     Analysis("Damage Denied", "RANGE", [name |-> "DamageDenied"], TRUE),
     Analysis("Overdamage", "RANGE", [name |-> "Overdamage"], TRUE),
     Analysis("Crippled", "BOOL", [name |-> "Crippled"], TRUE),
     Analysis("Haywired", "BOOL", [name |-> "Haywired"], FALSE)}

\* run_test: do_analysis called on the worlds evaluate returned
DoAnalysis ==
    \E analysis \in Analyses :
        /\ pc.phase = "done"
        /\ res' = do_analysis(mos_states, analysis)
        /\ pc' = PcAt("analysed", 1, 1)
        /\ UNCHANGED <<base_rules, attacker, defender, start_states, att_rolls,
                       def_rolls, mos_states, log, grouped, returned, varsDice,
                       varsState, varsEntity>>

Next ==
    \/ GetRolls_InitStep
    \/ GetRolls_GetSkill
    \/ GetRolls_PreRoll
    \/ Evaluate_Roll
    \/ Evaluate_MoS
    \/ Evaluate_Resolve
    \/ Evaluate_Return
    \/ GroupStates
    \/ DoAnalysis

Spec == Init /\ [][Next]_vars

-----------------------------------------------------------------------------
(* Several Scenarios built one after the other over the same attacker and
   defender Entity objects *)

\* the number of Scenarios built over the same two models
MaxScenarios == 2

\* the models the Scenarios are built over (a weapon without traits, a
\* defender rolling one die)
InitRebuild ==
    /\ IdleDice /\ IdleState /\ IdleEntity
    /\ \E wpn_damage \in 1..MaxDamage, att_dice_mod \in AttDiceMods :
          attacker = Scenario_init_model(
                         make_model(att_components(wpn_damage, <<>>,
                                                   att_dice_mod, "Never"),
                                    "Attacker"))
    /\ \E def_hull \in 1..MaxHull :
          defender = Scenario_init_model(
                         make_model(def_components(2, def_hull, 1, -1),
                                    "Defender"))
    /\ base_rules = get_rules
    /\ start_states = default_start_states
    /\ att_rolls = {} /\ def_rolls = {} /\ mos_states = {}
    /\ pc = PcAt("init", 1, 1)
    /\ log = <<>>
    /\ grouped = <<>>
    /\ res = <<>>
    /\ returned = <<>>

\* Scenario.__init__ called with the attacker and the defender of the
\* Scenario before it, once that Scenario's evaluate has returned
Scenario_init ==
    /\ pc.phase = "done"
    /\ Len(returned) < MaxScenarios
    /\ attacker' = Scenario_init_model(attacker)
    /\ defender' = Scenario_init_model(defender)
    /\ base_rules' = get_rules
    /\ start_states' = default_start_states
    /\ att_rolls' = {} /\ def_rolls' = {} /\ mos_states' = {}
    /\ pc' = PcAt("init", 1, 1)
    /\ log' = <<>>
    /\ UNCHANGED <<grouped, res, returned, varsDice, varsState, varsEntity>>

NextRebuild ==
    \/ Next
    \/ Scenario_init

SpecRebuild == InitRebuild /\ [][NextRebuild]_vars

-----------------------------------------------------------------------------
(* One evaluate() with its loops unfolded: every iteration of the while loop
   of Scenario.pass_states and of the two loops of Entity.pass_message is a
   step.  eCall is the frame of the pass_states call that is running (its
   working and results lists), ent the Entity it was given, pm the frame of
   the pass_message call it made.  Inside a pass_states call the position pc
   also holds the statement the call is at (at) and the loop variables: the
   number of worlds left in the working list of pass_states (worlds), the
   index of the Component in the for loop of pass_message (k) and the number
   of worlds left in the working list of pass_message (left). *)

\* the iteration keeps the world it was given in the list
list_pop_keepsItem(l) == [item |-> l[Len(l)], rest |-> l]

\* list.pop(): the last item and the list without it
list_pop(l) == [item |-> l[Len(l)], rest |-> Front(l)]

\* the models of the Scenario that is evaluated (a weapon with the Fire
\* trait)
InitSteps ==
    /\ IdleDice /\ IdleState
    /\ ent = <<>> /\ pm = PmIdle /\ eCall = ECallIdle
    /\ \E wpn_damage \in 1..MaxDamage, att_dice_mod \in AttDiceMods :
          attacker = Scenario_init_model(
                         make_model(att_components(wpn_damage,
                                                   <<FireComponent(1)>>,
                                                   att_dice_mod, "Never"),
                                    "Attacker"))
    /\ \E def_hull \in 1..MaxHull, def_structure \in 1..MaxStructure,
          def_dice_mod \in DefDiceMods :
          defender = Scenario_init_model(
                         make_model(def_components(2, def_hull, def_structure,
                                                   def_dice_mod),
                                    "Defender"))
    /\ base_rules = get_rules
    /\ start_states = default_start_states
    /\ att_rolls = {} /\ def_rolls = {} /\ mos_states = {}
    /\ pc = PcAt("init", 1, 1)
    /\ log = <<>>
    /\ grouped = <<>>
    /\ res = <<>>
    /\ returned = <<>>

\* the phases of get_rolls / evaluate that make pass_states calls
CallPhases == {"init", "skill", "pre_roll", "roll", "resolve"}

\* get_rolls / evaluate is inside a pass_states call
InCall == "at" \in DOMAIN pc

\* get_rolls / evaluate is about to make a pass_states call
AtCall == pc.phase \in CallPhases /\ ~InCall

\* the position inside the pass_states call get_rolls / evaluate is making
PcIn(at, worlds, k, left) ==
    [phase |-> pc.phase, step |-> pc.step, call |-> pc.call, at |-> at,
     worlds |-> worlds, k |-> k, left |-> left]

\* the pass_states call get_rolls / evaluate is at: the step, the Entity,
\* the world-set it is given (from) and the one its result is assigned to
CurrentCall ==
    CASE pc.phase = "init" ->
            [step |-> init_steps[pc.step], entity |-> init_entities[pc.call],
             from |-> "start", to |-> "start"]
      [] pc.phase = "skill" ->
            [step |-> "GetSkill",
             entity |-> IF pc.call = 1 THEN "Attacker" ELSE "Defender",
             from |-> "start", to |-> IF pc.call = 1 THEN "att" ELSE "def"]
      [] pc.phase = "pre_roll" ->
            [step |-> pre_roll[pc.step], entity |-> side_calls[pc.call].entity,
             from |-> side_calls[pc.call].side, to |-> side_calls[pc.call].side]
      [] pc.phase = "roll" ->
            [step |-> roll_steps[pc.step], entity |-> side_calls[pc.call].entity,
             from |-> side_calls[pc.call].side, to |-> side_calls[pc.call].side]
      [] pc.phase = "resolve" ->
            [step |-> ResolveTimeSteps[pc.step], entity |-> entities[pc.call],
             from |-> "mos", to |-> "mos"]

\* the world-set of that name
WorldSet(side) ==
    CASE side = "start" -> start_states
      [] side = "att" -> att_rolls
      [] side = "def" -> def_rolls
      [] side = "mos" -> mos_states

\* the position after the pass_states call get_rolls / evaluate is at
AfterCall ==
    CASE pc.phase = "init" ->
            Advance("init", Len(init_steps), Len(init_entities), "skill")
      [] pc.phase = "skill" -> Advance("skill", 1, 2, "pre_roll")
      [] pc.phase = "pre_roll" ->
            Advance("pre_roll", Len(pre_roll), Len(side_calls), "roll")
      [] pc.phase = "roll" ->
            Advance("roll", Len(roll_steps), Len(side_calls), "mos")
      [] pc.phase = "resolve" ->
            Advance("resolve", Len(ResolveTimeSteps), Len(entities), "return")

\* the result of the pass_states call is assigned
Assign(side, states) ==
    /\ start_states' = IF side = "start" THEN states ELSE start_states
    /\ att_rolls' = IF side = "att" THEN states ELSE att_rolls
    /\ def_rolls' = IF side = "def" THEN states ELSE def_rolls
    /\ mos_states' = IF side = "mos" THEN states ELSE mos_states

\* the Entity of the call has a Component for the step of the call
Subscribed ==
    CurrentCall.step \in Entity_valid_messages(EntityOf(CurrentCall.entity))

\* Each step is given in two parts: where it is taken and where it leads
\* (the part named _pc), and what it does to the lists and the world-sets.

\* pass_states, lines 587-588: the Entity has no Component for the step
PassStates_Skip_pc ==
    /\ AtCall /\ ~Subscribed
    /\ pc' = AfterCall

PassStates_Skip ==
    /\ PassStates_Skip_pc
    /\ Assign(CurrentCall.to, WorldSet(CurrentCall.from))
    /\ UNCHANGED <<base_rules, attacker, defender, log, grouped, res, returned,
                   varsDice, varsState, varsEntity>>

\* pass_states, lines 589-590: the two lists
PassStates_Begin_pc ==
    /\ AtCall /\ Subscribed
    /\ pc' = PcIn("while", Cardinality(WorldSet(CurrentCall.from)), 0, 0)

PassStates_Begin ==
    /\ PassStates_Begin_pc
    /\ ent' = EntityOf(CurrentCall.entity)
    /\ eCall' = [op |-> "pass_states", msg |-> CurrentCall.step,
                 working |-> SetToSeq(WorldSet(CurrentCall.from)),
                 results |-> <<>>]
    /\ UNCHANGED <<pm, base_rules, attacker, defender, start_states, att_rolls,
                   def_rolls, mos_states, log, grouped, res, returned,
                   varsDice, varsState>>

\* pass_states, lines 591-592: working.pop() is passed to pass_message, whose
\* lines 152-154 set up its lists
PassStates_Pop_pc ==
    /\ InCall /\ pc.at = "while"
    /\ eCall.working # <<>>
    /\ pc' = PcIn("for", Len(list_pop(eCall.working).rest), 1, 1)

PassStates_Pop ==
    /\ PassStates_Pop_pc
    /\ LET popped == list_pop(eCall.working)
           msg == eCall.msg
       IN  /\ eCall' = [eCall EXCEPT !.working = popped.rest]
           /\ ent' = Entity_after_pass_message(ent, msg)
           /\ pm' = [PmIdle EXCEPT !.pc = "loop", !.msg = msg,
                                   !.input = popped.item,
                                   !.list = ent.subs[msg], !.k = 1,
                                   !.working = <<popped.item>>]
    /\ UNCHANGED <<base_rules, attacker, defender, start_states, att_rolls,
                   def_rolls, mos_states, log, grouped, res, returned,
                   varsDice, varsState>>

\* pass_message, lines 156-157: one iteration of the while loop
PassMessage_While_pc ==
    /\ InCall /\ pc.at = "for"
    /\ pm.k <= Len(pm.list)
    /\ pm.working # <<>>
    /\ pc' = [pc EXCEPT !.left = Len(list_pop(pm.working).rest)]

PassMessage_While ==
    /\ PassMessage_While_pc
    /\ LET popped == list_pop(pm.working)
           i == pm.list[pm.k]
           new_states == SetToSeq(Component_run(ent.comps[i], pm.msg,
                                                popped.item))
       IN  /\ pm' = [pm EXCEPT !.working = popped.rest,
                               !.results = @ \o new_states]
           /\ ent' = [ent EXCEPT !.comps[i] = Component_after_run(@, pm.msg)]
    /\ UNCHANGED <<eCall, base_rules, attacker, defender, start_states,
                   att_rolls, def_rolls, mos_states, log, grouped, res,
                   returned, varsDice, varsState>>

\* pass_message, line 158: the while loop is over, the lists are swapped and
\* the for loop goes on to the next Component
PassMessage_For_pc ==
    /\ InCall /\ pc.at = "for"
    /\ pm.k <= Len(pm.list)
    /\ pm.working = <<>>
    /\ pc' = [pc EXCEPT !.k = @ + 1, !.left = Len(pm.results)]

PassMessage_For ==
    /\ PassMessage_For_pc
    /\ LET sw == swap(pm.working, pm.results)
       IN  pm' = [pm EXCEPT !.working = sw.working, !.results = sw.results,
                            !.k = @ + 1]
    /\ UNCHANGED <<ent, eCall, base_rules, attacker, defender, start_states,
                   att_rolls, def_rolls, mos_states, log, grouped, res,
                   returned, varsDice, varsState>>

\* pass_message, line 159, and pass_states, line 592: results.extend(...)
\* with what pass_message returned
PassStates_Extend_pc ==
    /\ InCall /\ pc.at = "for"
    /\ pm.k > Len(pm.list)
    /\ pc' = [pc EXCEPT !.at = "while", !.k = 0, !.left = 0]

PassStates_Extend ==
    /\ PassStates_Extend_pc
    /\ eCall' = [eCall EXCEPT !.results = @ \o SetToSeq(Range(pm.working))]
    /\ pm' = PmIdle
    /\ UNCHANGED <<ent, base_rules, attacker, defender, start_states,
                   att_rolls, def_rolls, mos_states, log, grouped, res,
                   returned, varsDice, varsState>>

\* pass_states, line 594: the while loop is over
PassStates_Return_pc ==
    /\ InCall /\ pc.at = "while"
    /\ eCall.working = <<>>
    /\ pc' = AfterCall

PassStates_Return ==
    /\ PassStates_Return_pc
    /\ Assign(CurrentCall.to, Range(eCall.results))
    /\ eCall' = ECallIdle
    /\ UNCHANGED <<ent, pm, base_rules, attacker, defender, log, grouped, res,
                   returned, varsDice, varsState>>

\* evaluate, lines 686-699, and line 710
Evaluate_MoS_pc == pc.phase = "mos" /\ pc' = PcAt("resolve", 1, 1)
Evaluate_Return_pc == pc.phase = "return" /\ pc' = PcAt("done", 1, 1)

NextSteps ==
    \/ PassStates_Skip
    \/ PassStates_Begin
    \/ PassStates_Pop
    \/ PassMessage_While
    \/ PassMessage_For
    \/ PassStates_Extend
    \/ PassStates_Return
    \/ Evaluate_MoS
    \/ Evaluate_Return

\* the move from one statement to the next of any step of NextSteps
Control ==
    \/ PassStates_Skip_pc
    \/ PassStates_Begin_pc
    \/ PassStates_Pop_pc
    \/ PassMessage_While_pc
    \/ PassMessage_For_pc
    \/ PassStates_Extend_pc
    \/ PassStates_Return_pc
    \/ Evaluate_MoS_pc
    \/ Evaluate_Return_pc

\* the interpreter runs evaluate() without interruption: while there is a
\* next statement, it is executed
SpecSteps == InitSteps /\ [][NextSteps]_vars /\ WF_pc(Control)

-----------------------------------------------------------------------------
\* the number of times x occurs in the list seq
Count(seq, x) == Cardinality({i \in DOMAIN seq : seq[i] = x})

\* the lists a and b hold the same elements the same number of times
SameBag(a, b) ==
    /\ Len(a) = Len(b)
    /\ \A i \in DOMAIN a : Count(a, a[i]) = Count(b, a[i])

-----------------------------------------------------------------------------
(* Properties of the Scenario *)

\* the pass_states call the Scenario makes next: the Entity, the step and
\* the world-set given (no worlds when no call is left)
PendingCall ==
    CASE pc.phase = "init" ->
            [who |-> init_entities[pc.call], step |-> init_steps[pc.step],
             states |-> start_states]
      [] pc.phase = "skill" ->
            [who |-> IF pc.call = 1 THEN "Attacker" ELSE "Defender",
             step |-> "GetSkill", states |-> start_states]
      [] pc.phase \in {"pre_roll", "roll"} ->
            [who |-> side_calls[pc.call].entity,
             step |-> IF pc.phase = "pre_roll" THEN pre_roll[pc.step]
                      ELSE roll_steps[pc.step],
             states |-> IF side_calls[pc.call].side = "att" THEN att_rolls
                        ELSE def_rolls]
      [] pc.phase = "resolve" ->
            [who |-> entities[pc.call], step |-> ResolveTimeSteps[pc.step],
             states |-> mos_states]
      [] OTHER -> [who |-> "Base Rules", step |-> "GetSkill", states |-> {}]

\* the worlds the n-th Component subscribed to msg is run on when the Entity
\* is passed the worlds states
RECURSIVE InputsOf(_, _, _, _)
InputsOf(entity, msg, states, n) ==
    IF n = 1 THEN states
    ELSE UNION {Component_run(entity.comps[entity.subs[msg][n - 1]], msg, w) :
                   w \in InputsOf(entity, msg, states, n - 1)}

\* the runs of single Behaviors in the pending call: the Component, the
\* step, the input world and the worlds output
PendingRuns ==
    LET e == EntityOf(PendingCall.who)
        msg == PendingCall.step
    IN  {[comp |-> e.comps[e.subs[msg][n]], msg |-> msg, input |-> w,
          output |-> Component_run(e.comps[e.subs[msg][n]], msg, w)] :
            <<n, w>> \in
                UNION {{n} \X InputsOf(e, msg, PendingCall.states, n) :
                          n \in DOMAIN e.subs[msg]}}

C2_BehaviorConservesMass ==
    \A r \in PendingRuns : total_prob(r.output) = r.input.prob

\* a Fire damage roll is about to split a world of probability below 1 in
\* three, and a marginal hit has split a world before
C2_Witness ==
    /\ \E r \in PendingRuns :
          /\ r.comp.kind = "Fire" /\ r.msg = "APPLY_EXTRA_DAMAGE"
          /\ Cardinality(r.output) = 3
          /\ RLess(r.input.prob, ROne)
    /\ \E w \in mos_states :
          get_effects(w, [name |-> "AttackDamage", source |-> "Marginal Hit"]) # {}

\* the sum of P(a) * P(d) over the pairs of worlds a of att, d of def of margin m
PairMass(att, def, m) ==
    RSum([a \in att |->
            RSum([d \in {x \in def : sum_values(get_effects(a, [name |-> "ModResult"]))
                                       - sum_values(get_effects(x, [name |-> "ModResult"]))
                                       = m} |->
                    RMul(a.prob, d.prob)])])

\* the margins of the pairs of roll worlds
Margins ==
    {sum_values(get_effects(a, [name |-> "ModResult"]))
        - sum_values(get_effects(d, [name |-> "ModResult"])) :
        <<a, d>> \in att_rolls \X def_rolls}

\* C3: the worlds evaluate() makes of the two sets of roll worlds are one
\* world per distinct margin (sum of the attacker world's ModResult values
\* minus the sum of the defender world's); its probability is the sum of
\* P(a) * P(d) over the pairs (a, d) of that margin, and its only Effect is
\* the MoS Effect of that value.
C3_OneWorldPerMargin ==
    (pc.phase = "resolve" /\ pc.step = 1 /\ pc.call = 1) =>
        /\ \A m \in Margins :
              Cardinality({w \in mos_states :
                              sum_effects(w, [name |-> "MoS"]) = m}) = 1
        /\ \A w \in mos_states :
              \E m \in Margins :
                  /\ w.effects = {Effect("MoS", "Base Rules", m)}
                  /\ w.prob = PairMass(att_rolls, def_rolls, m)

\* several margins, one of them reached by several pairs of roll worlds,
\* which carry Effects of their own
C3_Witness ==
    /\ pc.phase = "resolve" /\ pc.step = 1 /\ pc.call = 1
    /\ Cardinality(mos_states) > 2
    /\ Cardinality(att_rolls \X def_rolls) > Cardinality(mos_states)
    /\ \E a \in att_rolls : get_effects(a, [name |-> "WeaponDamage"]) # {}
    /\ \E w \in mos_states : RLess(w.prob, ROne) /\ RLess(RZero, w.prob)

\* the <<step, Entity>> pairs of the pass_states calls made so far on the
\* world-set side, in the order of the calls
CallsOn(side) ==
    LET on(e) == e.side = side
        sel == SelectSeq(log, on)
    IN  [i \in DOMAIN sel |-> <<sel[i].step, sel[i].entity>>]

IsPrefix(a, b) == Len(a) <= Len(b) /\ a = SubSeq(b, 1, Len(a))

\* the resolve steps, each for the base rules, the attacker and the defender
ResolveOrder ==
    LET steps == <<"GATHER_MODEL_DATA", "APPLY_HIT_MISS", "CALC_ATTACK_DAMAGE",
                   "MOD_ATTACK_DAMAGE", "APPLY_ATTACK_DAMAGE", "ADD_EXTRA_EFFECTS",
                   "APPLY_EXTRA_DAMAGE", "END_OF_ROUND", "CLEANUP">>
        who == <<"Base Rules", "Attacker", "Defender">>
    IN  [i \in 1..(9 * 3) |-> <<steps[((i - 1) \div 3) + 1], who[((i - 1) % 3) + 1]>>]

\* C4: evaluate() passes the resolve steps in the order GATHER_MODEL_DATA,
\* APPLY_HIT_MISS, CALC_ATTACK_DAMAGE, MOD_ATTACK_DAMAGE, APPLY_ATTACK_DAMAGE,
\* ADD_EXTRA_EFFECTS, APPLY_EXTRA_DAMAGE, END_OF_ROUND, CLEANUP, each step to
\* the base rules, then the attacker, then the defender, and each call is
\* given all the worlds the call before returned, so that no world reaches
\* the next step before all worlds have been through the three Entities.
C4_ResolveOrder ==
    LET on(e) == e.side = "mos"
        calls == SelectSeq(log, on)
    IN  /\ IsPrefix(CallsOn("mos"), ResolveOrder)
        /\ pc.phase \in {"return", "done", "grouped"} => CallsOn("mos") = ResolveOrder
        /\ \A i \in DOMAIN calls : i > 1 => calls[i].n_in = calls[i - 1].n_out
        /\ pc.phase = "resolve" /\ calls # <<>> =>
              calls[Len(calls)].n_out = Cardinality(mos_states)

\* all resolve calls are made; the three Entities each had Components for
\* some step, and the worlds were split on the way
C4_Witness ==
    /\ pc.phase = "done"
    /\ \A who \in {"Base Rules", "Attacker", "Defender"} :
          \E i \in DOMAIN log :
              log[i].side = "mos" /\ log[i].entity = who /\ log[i].handled
    /\ \E i \in DOMAIN log : log[i].side = "mos" /\ log[i].n_out > log[i].n_in

\* the pre-roll steps
PreRollSteps ==
    {"INITIALIZE", "CHECK_COVER", "GATHER_DICE", "GATHER_RESULT_BONUSES",
     "GATHER_THRESHOLD_BONUSES"}

\* the worlds of the call are worlds of the roll of who: its own roll
\* worlds, or the starting worlds both rolls are made from
WorldsOfRoll(e, who) ==
    \/ e.side = "start"
    \/ e.side = "att" /\ who = "Attacker"
    \/ e.side = "def" /\ who = "Defender"

\* C5 as stated: every pre-roll step is passed, on the worlds of a side,
\* to the base rules and to the Entity of that side only: no Component of the
\* defender handles a step on worlds of the attacker's roll, and none of the
\* attacker on worlds of the defender's roll.
C5_Original ==
    \A i \in DOMAIN log :
        (log[i].step \in PreRollSteps /\ log[i].handled) =>
            /\ ~(log[i].entity = "Defender" /\ WorldsOfRoll(log[i], "Attacker"))
            /\ ~(log[i].entity = "Attacker" /\ WorldsOfRoll(log[i], "Defender"))

\* the calls of get_rolls on the starting worlds
SharedOrder ==
    <<<<"INITIALIZE", "Base Rules">>, <<"INITIALIZE", "Attacker">>,
      <<"INITIALIZE", "Defender">>, <<"CHECK_COVER", "Base Rules">>,
      <<"CHECK_COVER", "Attacker">>, <<"CHECK_COVER", "Defender">>>>

\* the calls of get_rolls and evaluate on the roll worlds of own
SideOrder(own) ==
    <<<<"GetSkill", own>>,
      <<"GATHER_DICE", "Base Rules">>, <<"GATHER_DICE", own>>,
      <<"GATHER_RESULT_BONUSES", "Base Rules">>, <<"GATHER_RESULT_BONUSES", own>>,
      <<"GATHER_THRESHOLD_BONUSES", "Base Rules">>, <<"GATHER_THRESHOLD_BONUSES", own>>,
      <<"ROLL_DICE", "Base Rules">>, <<"ROLL_DICE", own>>,
      <<"ADD_SKILL", "Base Rules">>, <<"ADD_SKILL", own>>>>

\* C5 (amended): INITIALIZE and CHECK_COVER are passed once, on the starting
\* worlds both rolls are made from, to the base rules, the attacker and the
\* defender in that order; only then is each side's roll built separately:
\* GetSkill, GATHER_DICE, GATHER_RESULT_BONUSES, GATHER_THRESHOLD_BONUSES,
\* ROLL_DICE and ADD_SKILL are passed on a side's worlds to the base rules
\* and then to that side's own Entity only.
C5_SharedInitThenSeparate ==
    /\ IsPrefix(CallsOn("start"), SharedOrder)
    /\ IsPrefix(CallsOn("att"), SideOrder("Attacker"))
    /\ IsPrefix(CallsOn("def"), SideOrder("Defender"))
    /\ (CallsOn("att") # <<>> \/ CallsOn("def") # <<>>) =>
          CallsOn("start") = SharedOrder
    /\ pc.phase \notin {"init", "skill", "pre_roll", "roll"} =>
          /\ CallsOn("att") = SideOrder("Attacker")
          /\ CallsOn("def") = SideOrder("Defender")

\* both rolls are built: the defender handled INITIALIZE on the starting
\* worlds, and each side handled GATHER_DICE on its own worlds
C5_Witness ==
    /\ pc.phase = "mos"
    /\ \E i \in DOMAIN log :
          /\ log[i].step = "INITIALIZE" /\ log[i].entity = "Defender"
          /\ log[i].side = "start" /\ log[i].handled
    /\ \E i \in DOMAIN log :
          /\ log[i].step = "GATHER_DICE" /\ log[i].entity = "Defender"
          /\ log[i].side = "def" /\ log[i].handled
    /\ \E i \in DOMAIN log :
          /\ log[i].step = "GATHER_DICE" /\ log[i].entity = "Attacker"
          /\ log[i].side = "att" /\ log[i].handled
    /\ \E a \in att_rolls : get_effects(a, [name |-> "Hull"]) # {}

\* C6: Entity.pass_message(msg, w) returns the worlds obtained by running the
\* Components subscribed to msg in the order they were added, each on every
\* world output by the one before; no intermediate world is skipped or run
\* twice by the same Component.
C6_PassMessageComposes ==
    pm.pc = "done" =>
        /\ \A j \in DOMAIN pm.list : j > 1 => pm.list[j - 1] < pm.list[j]
        /\ pm.ret = pass_message(ent, pm.msg, pm.input)
        /\ \A j \in DOMAIN pm.list :
              /\ SameBag(pm.ins[j], IF j = 1 THEN <<pm.input>> ELSE pm.outs[j - 1])
              /\ \A w \in Range(pm.ins[j]) :
                    Component_run(ent.comps[pm.list[j]], pm.msg, w)
                        \subseteq Range(pm.outs[j])
        /\ pm.list # <<>> => pm.ret = Range(pm.outs[Len(pm.list)])

\* two branching Components in a row: Haywire splits the world in two and
\* Fire(2) splits each of them in three
C6_Witness ==
    /\ pm.pc = "done"
    /\ pm.msg = "APPLY_EXTRA_DAMAGE"
    /\ Len(pm.list) = 2
    /\ ent.comps[pm.list[1]].kind = "Haywire"
    /\ ent.comps[pm.list[2]].kind = "Fire"
    /\ Len(pm.ins[2]) = 2
    /\ Cardinality(pm.ret) = 6

\* C7: a step nobody subscribed to is the identity: Component.run returns {w}
\* when the Component registered no behavior for msg, Entity.pass_message
\* returns {w} when no Component of the Entity is subscribed to msg, and
\* Scenario.pass_states returns its input world-set when msg is not among
\* the Entity's valid messages.
C7_UnsubscribedIsIdentity ==
    /\ (eCall.op = "run" /\ eCall.msg \notin Registered(ent.comps[eCall.comp].kind))
          => eCall.ret = {eCall.arg}
    /\ (pm.pc = "done" /\ pm.list = <<>>) => pm.ret = {pm.input}
    /\ (eCall.op = "pass_states"
          /\ \A i \in DOMAIN ent.comps : eCall.msg \notin Registered(ent.comps[i].kind))
          => eCall.ret = eCall.arg

\* a Component that registered other steps was run on a step it did not
\* register, with a world that carries effects
C7_Witness ==
    /\ eCall.op = "run"
    /\ ent.comps[eCall.comp].kind = "Fire"
    /\ eCall.msg = "ROLL_DICE"
    /\ eCall.arg.effects # {}
    /\ eCall.ret = {eCall.arg}

\* C8: add_effect, remove_effects and remove_by_filter never modify the
\* receiver: across every call each existing State object keeps its prob and
\* its effect set, and the returned State has the receiver's prob.
C8_ReceiverNeverModified ==
    [][/\ \A i \in DOMAIN heap : i \in DOMAIN heap' /\ heap'[i] = heap[i]
       /\ call'.op \in {"add_effect", "remove_effects", "remove_by_filter"}
            => heap'[call'.ret].prob = heap[call'.recv].prob]_vars

\* a second call in a row removed effects: the result differs from the
\* receiver, which is still in the heap with a probability other than 1
C8_Witness ==
    /\ call.op = "remove_effects"
    /\ Len(heap) = 3
    /\ heap[call.ret].effects # heap[call.recv].effects
    /\ heap[call.recv].prob = <<1, 2>>

\* C9: the effects of a world are a set: adding an Effect already present
\* leaves the effect set unchanged, an Effect that differs from those present
\* (in name, source or value) is added beside them, and sum_effects returns
\* the sum of the values of all matching Effects, 0 when none matches.
C9_EffectSetAndSum ==
    /\ (call.op = "add_effect" /\ call.arg # None) =>
          LET before == heap[call.recv].effects
              after == heap[call.ret].effects
          IN  /\ call.arg \in before => after = before
              /\ call.arg \notin before =>
                    /\ before \subseteq after
                    /\ call.arg \in after
                    /\ Cardinality(after) = Cardinality(before) + 1
    /\ call.op = "sum_effects" =>
          LET hit == {e \in heap[call.recv].effects : matches(e, call.arg)}
              count(v) == Cardinality({e \in hit : e.value = v})
          IN  /\ call.ret = 1 * count(1) + 2 * count(2)
              /\ hit = {} => call.ret = 0

\* two Effects of equal name and value but different source coexist and are
\* both summed
C9_Witness ==
    /\ call.op = "sum_effects"
    /\ call.arg = [name |-> "ModDice"]
    /\ {Effect("ModDice", "Base Rules", 2), Effect("ModDice", "Custom", 2)}
          \subseteq heap[call.recv].effects
    /\ call.ret >= 4

\* C10: for every numDice >= 1 and sides >= 1 the probabilities returned by
\* all_probs_high_die sum to 1, and for every numDice, sides >= 1 and every
\* threshold value the probabilities returned by all_probs_threshold sum
\* to 1.
C10_PmfSumsToOne ==
    /\ (dOp = "all_probs_high_die" /\ dice >= 1) => RSum(dPdf) = ROne
    /\ dOp = "all_probs_threshold" => RSum(dPdf) = ROne

\* a genuine binomial case: several dice, a reachable threshold
C10_Witness ==
    /\ dOp = "all_probs_threshold"
    /\ dice = 3 /\ sides = 6 /\ val = 4
    /\ DOMAIN dPdf = 0..3
    /\ dPdf[2] = <<3, 8>>

-----------------------------------------------------------------------------
(* Properties of the dice functions, continued *)

RECURSIVE Factorial(_)
Factorial(n) == IF n <= 1 THEN 1 ELSE n * Factorial(n - 1)

\* C(d, k) * a^k * (s - a)^(d - k) / s^d: k of d dice succeed when a of the
\* s faces of a die are successes
BinomialMass(d, k, a, s) ==
    Rat((Factorial(d) \div (Factorial(k) * Factorial(d - k)))
            * Pow(a, k) * Pow(s - a, d - k),
        Pow(s, d))

\* C11: all_probs_threshold(dice, sides, val) is the PMF {0: 1} when
\* val > sides or dice < 1; otherwise it has one entry for each k in
\* 0..dice, equal to C(dice, k) * p^k * (1 - p)^(dice - k) with
\* p = max(0, sides - val + 1) / sides.
C11_ThresholdPmf ==
    dOp = "all_probs_threshold" =>
        IF val > sides \/ dice < 1
        THEN DOMAIN dPdf = {0} /\ dPdf[0] = ROne
        ELSE /\ DOMAIN dPdf = 0..dice
             /\ \A k \in 0..dice :
                   dPdf[k] = BinomialMass(dice, k,
                                          IF sides - val + 1 > 0
                                          THEN sides - val + 1 ELSE 0,
                                          sides)

\* the threshold is the highest face: not degenerate, both dice succeed
\* with probability 1/36
C11_Witness ==
    /\ dOp = "all_probs_threshold"
    /\ dice = 2 /\ sides = 6 /\ val = 6
    /\ DOMAIN dPdf = 0..2
    /\ dPdf[2] = <<1, 36>>

\* C12: for every dice >= 1 the PMF all_probs_brute_force_max_roll(dice)
\* counts from all 6^dice rolls is, face by face, all_probs_high_die(dice, 6):
\* P(max = f) = (f^dice - (f - 1)^dice) / 6^dice for f in 1..6.
C12_ClosedFormIsBruteForce ==
    dOp = "all_probs_brute_force_max_roll" =>
        /\ DOMAIN dPdf = DOMAIN all_probs_high_die(dice, 6)
        /\ \A f \in 1..6 :
              /\ dPdf[f] = all_probs_high_die(dice, 6)[f]
              /\ dPdf[f] = Rat(Pow(f, dice) - Pow(f - 1, dice), Pow(6, dice))

\* three dice: 216 rolls, 91 of them with a 6 as highest face
C12_Witness ==
    /\ dOp = "all_probs_brute_force_max_roll"
    /\ dice = 3
    /\ dPdf[6] = <<91, 216>> /\ dPdf[1] = <<1, 216>>

-----------------------------------------------------------------------------
(* Properties of the base rules *)

\* the Effects of a world with the given name
Named(w, n) == {e \in w.effects : e.name = n}

\* the value of the MoS Effect of a world of the resolve steps
MoSOf(w) == (CHOOSE e \in w.effects : e.name = "MoS").value

\* the resolve call at step i, Entity k has been made
ResolvePast(i, k) ==
    \/ pc.phase \in {"return", "done", "grouped"}
    \/ pc.phase = "resolve" /\ (pc.step > i \/ (pc.step = i /\ pc.call > k))

\* C13: AttackRuleComponent._hit_miss returns the world with a Hit Effect
\* added when its MoS is >= 0 (0 included) and with a Miss Effect added when
\* its MoS is < 0, never both, and with the probability unchanged; so after
\* APPLY_HIT_MISS every world has Hit or Miss according to the sign of its
\* MoS.
C13_HitIffMoSNotNegative ==
    /\ \A r \in PendingRuns :
          (r.comp.kind = "AttackRule" /\ r.msg = "APPLY_HIT_MISS") =>
              r.output =
                  {[prob |-> r.input.prob,
                    effects |-> r.input.effects \cup
                        {[name |-> IF MoSOf(r.input) >= 0 THEN "Hit" ELSE "Miss",
                          source |-> "Base Rules", value |-> 1]}]}
    /\ ResolvePast(2, 1) =>
          \A w \in mos_states :
              /\ (Named(w, "Hit") # {}) = (MoSOf(w) >= 0)
              /\ (Named(w, "Miss") # {}) = (MoSOf(w) < 0)

\* _hit_miss is about to run on a world of MoS 0 and on one of MoS -1
C13_Witness ==
    /\ \E r \in PendingRuns :
          r.comp.kind = "AttackRule" /\ r.msg = "APPLY_HIT_MISS"
              /\ MoSOf(r.input) = 0 /\ RLess(r.input.prob, ROne)
    /\ \E r \in PendingRuns :
          r.comp.kind = "AttackRule" /\ r.msg = "APPLY_HIT_MISS"
              /\ MoSOf(r.input) = -1

\* the sum of the values of the Effects of a world with the given name
ValueOf(w, n) == sum_values(Named(w, n))

\* WeaponDamage + MoS - Armor of a world
NetDamage(w) == ValueOf(w, "WeaponDamage") + MoSOf(w) - ValueOf(w, "Armor")

\* C14: on a hit world with WeaponDamage + MoS - Armor = 0,
\* _calc_attack_damage returns one world, with a pending MarginalHit Effect
\* (and AttackDamage 0); _marginal_hit at the following MOD_ATTACK_DAMAGE
\* replaces a world with a pending MarginalHit by exactly two worlds of half
\* its probability each, both without the MarginalHit Effect, one with
\* nothing added and one with an AttackDamage Effect of value 1 from
\* 'Marginal Hit'; a world whose net damage is not 0 gets no MarginalHit
\* and is not split.
C14_MarginalHit ==
    /\ \A r \in PendingRuns :
          (r.comp.kind = "AttackRule" /\ r.msg = "CALC_ATTACK_DAMAGE"
              /\ Named(r.input, "Hit") # {}) =>
              r.output =
                  {[prob |-> r.input.prob,
                    effects |-> r.input.effects
                        \cup {[name |-> "AttackDamage", source |-> "Base Rules",
                               value |-> IF NetDamage(r.input) > 0
                                         THEN NetDamage(r.input) ELSE 0]}
                        \cup (IF NetDamage(r.input) = 0
                              THEN {[name |-> "MarginalHit",
                                     source |-> "Base Rules", value |-> 1]}
                              ELSE {})]}
    /\ \A r \in PendingRuns :
          (r.comp.kind = "AttackRule" /\ r.msg = "MOD_ATTACK_DAMAGE") =>
              /\ (Named(r.input, "MarginalHit") # {}) =
                    (Named(r.input, "Hit") # {} /\ NetDamage(r.input) = 0)
              /\ IF Named(r.input, "MarginalHit") = {}
                 THEN r.output = {r.input}
                 ELSE LET rest == r.input.effects \ Named(r.input, "MarginalHit")
                          half == RMul(r.input.prob, <<1, 2>>)
                      IN  /\ Cardinality(r.output) = 2
                          /\ r.output =
                                {[prob |-> half, effects |-> rest],
                                 [prob |-> half,
                                  effects |-> rest \cup
                                      {[name |-> "AttackDamage",
                                        source |-> "Marginal Hit", value |-> 1]}]}

\* _marginal_hit is about to split a world of net damage 0 and to leave
\* alone a hit world of net damage 1
C14_Witness ==
    /\ \E r \in PendingRuns :
          /\ r.comp.kind = "AttackRule" /\ r.msg = "MOD_ATTACK_DAMAGE"
          /\ Named(r.input, "MarginalHit") # {} /\ Cardinality(r.output) = 2
          /\ RLess(RZero, r.input.prob)
    /\ \E r \in PendingRuns :
          /\ r.comp.kind = "AttackRule" /\ r.msg = "MOD_ATTACK_DAMAGE"
          /\ Named(r.input, "Hit") # {} /\ NetDamage(r.input) = 1
          /\ Cardinality(r.output) = 1

-----------------------------------------------------------------------------
(* Properties of the damage rules *)

\* C15: apply_damage on a world that is not Destroyed, with hull h,
\* structure s and one selected damage Effect of value d, sets the hull to
\* h - min(d, h) and the structure to s - min(d - min(d, h), s), and adds an
\* Overdamage Effect of value d - h - s exactly when d > h + s; so hull loss
\* + structure loss + overdamage = d, and the structure is reduced only
\* when the hull is 0 afterwards.
C15_HullThenStructureThenOverdamage ==
    (call.op = "apply_damage"
        /\ Named(heap[call.recv], "Destroyed") = {}
        /\ Cardinality({e \in heap[call.recv].effects :
                           e.name = call.arg.name /\ e.source = call.arg.source}) = 1) =>
        LET before == heap[call.recv]
            after == heap[call.ret]
            eff == CHOOSE e \in before.effects :
                       e.name = call.arg.name /\ e.source = call.arg.source
            d == eff.value
            h == ValueOf(before, "Hull")
            st == ValueOf(before, "Structure")
            hull_loss == IF d < h THEN d ELSE h
            structure_loss == IF d - hull_loss < st THEN d - hull_loss ELSE st
            over == Named(after, "Overdamage") \ Named(before, "Overdamage")
        IN  /\ Named(after, "Hull") =
                  {[name |-> "Hull", source |-> "Hull", value |-> h - hull_loss]}
            /\ Named(after, "Structure") =
                  {[name |-> "Structure", source |-> "Structure",
                    value |-> st - structure_loss]}
            /\ over = IF d > h + st
                      THEN {[name |-> "Overdamage", source |-> eff.source,
                             value |-> d - h - st]}
                      ELSE {}
            /\ hull_loss + structure_loss + sum_values(over) = d
            /\ structure_loss > 0 => ValueOf(after, "Hull") = 0
            /\ after.prob = before.prob

\* a damage of 4 on hull 1, structure 2: both are emptied and 1 is overdamage
C15_Witness ==
    /\ call.op = "apply_damage"
    /\ call.ret # call.recv
    /\ ValueOf(heap[call.recv], "Hull") = 1
    /\ ValueOf(heap[call.recv], "Structure") = 2
    /\ Effect("AttackDamage", "Base Rules", 4) \in heap[call.recv].effects
    /\ call.arg.source = "Base Rules"
    /\ Effect("Overdamage", "Base Rules", 1) \in heap[call.ret].effects

\* the worlds of the Scenario: those of its world-sets and those the
\* Behaviors of the pending call return
ScenarioWorlds ==
    start_states \cup att_rolls \cup def_rolls \cup mos_states
        \cup UNION {r.output : r \in PendingRuns}

\* C16: no world reachable during evaluate() carries both a Destroyed and a
\* Crippled Effect; a world whose Structure has reached 0 is Destroyed (and
\* so not Crippled), and a world whose Hull has reached 0 with Structure
\* left is Crippled.
C16_DestroyedNotCrippled ==
    \A w \in ScenarioWorlds :
        /\ ~(Named(w, "Destroyed") # {} /\ Named(w, "Crippled") # {})
        /\ (Named(w, "Structure") # {} /\ Named(w, "Hit") # {}
               /\ Named(w, "Hull") # {} /\ ResolvePast(5, 1)) =>
              /\ (ValueOf(w, "Structure") = 0) = (Named(w, "Destroyed") # {})
              /\ (ValueOf(w, "Hull") = 0 /\ ValueOf(w, "Structure") > 0)
                    = (Named(w, "Crippled") # {})

\* a hit of 3 more than hull 1 and structure 1 gave a Destroyed world, and
\* a Fire damage roll is about to destroy a Crippled world
C16_Witness ==
    /\ \E w \in mos_states :
          /\ Effect("Overdamage", "Base Rules", 3) \in w.effects
          /\ Effect("AttackDamage", "Base Rules", 5) \in w.effects
          /\ Named(w, "Destroyed") # {} /\ Named(w, "Crippled") = {}
    /\ \E r \in PendingRuns :
          /\ r.comp.kind = "Fire" /\ r.msg = "APPLY_EXTRA_DAMAGE"
          /\ Named(r.input, "Crippled") # {}
          /\ \E w \in r.output :
                Named(w, "Destroyed") # {} /\ Named(w, "Crippled") = {}

\* the order in which the pending attack damage is to be applied
AppliedOrder == <<"Base Rules", "Marginal Hit", "AP">>

\* the pending attack damage of the world from the first i sources
CumDamage(w, i) ==
    sum_values({e \in w.effects :
                   /\ e.name = "AttackDamage"
                   /\ \E j \in 1..i : e.source = AppliedOrder[j]})

\* the sources whose damage, added to that of the sources before, reaches t
Reaching(w, t) == {i \in DOMAIN AppliedOrder : CumDamage(w, i) >= t}

\* the first of them
FirstOf(is) == CHOOSE i \in is : \A j \in is : i <= j

\* C17: _apply_attack_damage on a world without Miss applies the pending
\* AttackDamage in the order Base Rules, Marginal Hit, AP: the world is
\* Destroyed by the first source with which the damage reaches hull +
\* structure (and the Overdamage, if any, has that source), else Crippled by
\* the first source with which it reaches the hull; the sources after the
\* destroying one are not applied.  On a Miss world nothing is applied.
C17_DamageOrder ==
    call.op = "apply_attack_damage" =>
        LET before == heap[call.recv]
            after == heap[call.ret]
            h == ValueOf(before, "Hull")
            st == ValueOf(before, "Structure")
            destroying == Reaching(before, h + st)
            crippling == Reaching(before, h)
            applied == IF destroying = {} THEN CumDamage(before, Len(AppliedOrder))
                       ELSE CumDamage(before, FirstOf(destroying))
        IN  IF Named(before, "Miss") # {} THEN after = before
            ELSE /\ Named(after, "Destroyed") =
                      IF destroying = {} THEN {}
                      ELSE {Effect("Destroyed", AppliedOrder[FirstOf(destroying)], 1)}
                 /\ Named(after, "Crippled") =
                      IF destroying # {} \/ crippling = {} THEN {}
                      ELSE {Effect("Crippled", AppliedOrder[FirstOf(crippling)], 1)}
                 /\ Named(after, "Overdamage") =
                      IF applied > h + st
                      THEN {Effect("Overdamage", AppliedOrder[FirstOf(destroying)],
                                   applied - h - st)}
                      ELSE {}
                 /\ ValueOf(after, "Hull") = Max(0, h - applied)
                 /\ ValueOf(after, "Structure") = Max(0, st - Max(0, applied - h))
                 /\ after.prob = before.prob

\* hull 1, structure 1, base damage 1 and AP damage 2: the base damage
\* cripples, the AP damage destroys with 1 overdamage
C17_Witness ==
    /\ call.op = "apply_attack_damage"
    /\ ValueOf(heap[call.recv], "Hull") = 1
    /\ ValueOf(heap[call.recv], "Structure") = 1
    /\ Effect("AttackDamage", "Base Rules", 1) \in heap[call.recv].effects
    /\ Effect("AttackDamage", "AP", 2) \in heap[call.recv].effects
    /\ Effect("Destroyed", "AP", 1) \in heap[call.ret].effects
    /\ Effect("Overdamage", "AP", 1) \in heap[call.ret].effects
    /\ Named(heap[call.ret], "Crippled") = {}

\* the runs of the pending call that apply damage: the attack damage and
\* the damage rolls of Haywire, Fire and Corrosion
DamageRuns ==
    {r \in PendingRuns :
        \/ r.comp.kind = "AttackRule" /\ r.msg = "APPLY_ATTACK_DAMAGE"
        \/ r.comp.kind \in {"Haywire", "Fire"} /\ r.msg = "APPLY_EXTRA_DAMAGE"
        \/ r.comp.kind = "Corrosion" /\ r.msg = "END_OF_ROUND"}

\* the damage Effects of the world
DamageEffects(w) ==
    {e \in w.effects : e.name \in {"AttackDamage", "BonusDamage", "Overdamage"}}

\* C18: a damage-applying Behavior given a Destroyed world returns worlds
\* with no damage Effect (AttackDamage, BonusDamage, Overdamage) the input
\* does not have, and with the Hull and Structure of the input.
C18_DestroyedTakesNoDamage ==
    \A r \in DamageRuns :
        Named(r.input, "Destroyed") # {} =>
            \A w \in r.output :
                /\ DamageEffects(w) \subseteq DamageEffects(r.input)
                /\ Named(w, "Hull") = Named(r.input, "Hull")
                /\ Named(w, "Structure") = Named(r.input, "Structure")

-----------------------------------------------------------------------------
(* Properties of the analyses *)

\* the SourceResults of the Result do_analysis returned
SourceResults ==
    IF pc.phase = "analysed" THEN {res.sources[s] : s \in DOMAIN res.sources}
    ELSE {}

\* C19: make_mins(pmf) maps every key v of pmf to the sum of pmf[k] over
\* the keys k >= v: its value at the largest key is the probability of that
\* key and each value is the probability of its key plus the value at the
\* next key above; its value at the smallest key is the total mass (1), and
\* the values do not increase with the key.
C19_MinsAreTailSums ==
    \A sr \in SourceResults :
        sr.type = "RANGE" =>
            LET pmf == sr.totals
                mins == sr.min_totals
                keys == DOMAIN pmf
                above(v) == {k \in keys : k > v}
                next(v) == CHOOSE k \in above(v) : \A j \in above(v) : k <= j
            IN  /\ DOMAIN mins = keys
                /\ \A v \in keys :
                      mins[v] = IF above(v) = {} THEN pmf[v]
                                ELSE RAdd(pmf[v], mins[next(v)])
                /\ \A v \in keys :
                      (\A k \in keys : v <= k) =>
                          mins[v] = RSum(pmf) /\ mins[v] = ROne
                /\ \A u, v \in keys : u < v => ~RLess(mins[u], mins[v])

\* the minimums of a Damage analysis over at least three values, the
\* probability of the largest being less than 1/2
C19_Witness ==
    /\ pc.phase = "analysed"
    /\ res.name = "Damage"
    /\ LET mins == res.sources["All"].min_totals
       IN  /\ Cardinality(DOMAIN mins) >= 3
           /\ \E v \in DOMAIN mins :
                 /\ \A k \in DOMAIN mins : k <= v
                 /\ RLess(RZero, mins[v]) /\ RLess(mins[v], <<1, 2>>)

\* the Analysis the Result is of
AnalysisOf(r) == CHOOSE a \in Analyses : a.name = r.name

\* the probability of a value > 0 in the PMF
SuccessProb(pmf) == RSumOver(pmf, {v \in DOMAIN pmf : v > 0})

\* C20: the Result of do_analysis with split_by_source has an entry for
\* "All" and one for every source of a matching Effect of an analysed
\* world; for every source s and key v > 0, normalized_totals[v] of s is
\* totals[v] of s divided by the success probability of the "All" totals;
\* the normalized PMF of "All" has the keys > 0 only and sums to 1 when
\* that success probability is not 0.
C20_SourcesScaledByAll ==
    (pc.phase = "analysed" /\ AnalysisOf(res).split_by_source) =>
        LET params == AnalysisOf(res).effect_params
            found == {e.source : e \in UNION {{x \in w.effects : x.name = params.name} :
                                                w \in mos_states}}
            all == res.sources["All"]
            p == SuccessProb(all.totals)
        IN  /\ DOMAIN res.sources = {"All"} \cup found
            /\ \A s \in DOMAIN res.sources :
                  LET sr == res.sources[s]
                  IN  /\ DOMAIN sr.normalized_totals = {v \in DOMAIN sr.totals : v > 0}
                      /\ \A v \in DOMAIN sr.normalized_totals :
                            /\ p # RZero
                            /\ RMul(sr.normalized_totals[v], p) = sr.totals[v]
            /\ \A v \in DOMAIN all.normalized_totals : v > 0
            /\ p # RZero => RSum(all.normalized_totals) = ROne

\* a Damage analysis with damage from the base rules and from Fire, the
\* success probability of Fire alone being less than that of all damage
C20_Witness ==
    /\ pc.phase = "analysed"
    /\ res.name = "Damage"
    /\ {"Base Rules", "Fire"} \subseteq DOMAIN res.sources
    /\ LET fire == res.sources["Fire"]
           all == res.sources["All"]
       IN  /\ RLess(RZero, SuccessProb(fire.totals))
           /\ RLess(SuccessProb(fire.totals), SuccessProb(all.totals))
           /\ RLess(SuccessProb(all.totals), ROne)
           /\ RLess(RSum(fire.normalized_totals), ROne)

\* the effect the Result is about occurs in none of the analysed worlds
NeverOccurs ==
    /\ pc.phase = "analysed"
    /\ \A w \in mos_states : Named(w, AnalysisOf(res).effect_params.name) = {}

\* C21: do_analysis on an effect that occurs in no analysed world returns a
\* Result (nothing is raised) whose only entry is "All", with totals {0:
\* total probability of the worlds}, average 0, no normalized totals and
\* normalized average 0.
C21_AbsentEffectGivesEmptyResult ==
    NeverOccurs =>
        /\ DOMAIN res.sources = {"All"}
        /\ LET all == res.sources["All"]
           IN  /\ DOMAIN all.totals = {0}
               /\ all.totals[0] = total_prob(mos_states)
               /\ all.average = RZero
               /\ DOMAIN all.normalized_totals = {}
               /\ all.normalized_average = RZero

\* the Damage Denied analysis (split by source) and the Haywired analysis
\* of a weapon without Haywire
C21_Witness ==
    /\ NeverOccurs
    /\ res.name \in {"Damage Denied", "Haywired"}
    /\ Cardinality(mos_states) > 1
    /\ "All" \in DOMAIN res.sources

-----------------------------------------------------------------------------
(* Properties of the roll *)

\* the number of dice of the rolled world
RolledDice == Max(sum_values(Named(heap[call.recv], "ModDice")), 1)

\* the sum of face * probability over the worlds _roll returned
RolledExpectation ==
    RSum([w \in call.ret |->
             RMul(RInt((CHOOSE e \in w.effects : e.name = "ModResult").value),
                  w.prob)])

\* C22: the expected value of the roll PMF of _roll under the BelowAverage
\* rule is at least the expected value of all_probs_high_die(dice, 6), for
\* every number of dice >= 1.
C22_RerollNeverLowersExpectation ==
    (call.op = "roll" /\ Named(heap[call.recv], "BelowAverage") # {}) =>
        ~RLess(RolledExpectation,
               RMul(expected(all_probs_high_die(RolledDice, D6)),
                    heap[call.recv].prob))

\* three dice rolled with the reroll: the expectation is greater
C22_Witness ==
    /\ call.op = "roll"
    /\ Named(heap[call.recv], "BelowAverage") # {}
    /\ RolledDice = 3
    /\ RLess(RMul(expected(all_probs_high_die(3, D6)), heap[call.recv].prob),
             RolledExpectation)

-----------------------------------------------------------------------------
(* Properties of the margin of success *)

\* the Components of the model that take part in its roll
RollComponents(model) ==
    {[kind |-> c.kind, name |-> c.name, source |-> c.source, value |-> c.value] :
        c \in {x \in Range(model.comps) :
                  x.kind \in {"Skill", "DiceBonus", "ResultBonus",
                              "ThresholdBonus", "Reroll", "DiceRule"}}}

\* attacker and defender roll the same dice with the same skill, and the
\* modifier of both is 0
SameRollConfiguration ==
    /\ RollComponents(attacker) = RollComponents(defender)
    /\ \A c \in RollComponents(attacker) : c.kind = "DiceBonus" => c.value = 0

\* the PMF is symmetric around 0, so P(>= 0) = 1/2 + P(0)/2
Symmetric(pmf) ==
    /\ \A k \in DOMAIN pmf : -k \in DOMAIN pmf /\ pmf[-k] = pmf[k]
    /\ RSumOver(pmf, {k \in DOMAIN pmf : k >= 0})
          = RAdd(<<1, 2>>, RMul(<<1, 2>>, IF 0 \in DOMAIN pmf THEN pmf[0] ELSE RZero))

\* C23: when attacker and defender have the same roll configuration, the
\* margin-of-success PMF evaluate builds is symmetric around 0: P(MoS = k) =
\* P(MoS = -k) for every k, and P(MoS >= 0) = 1/2 + P(MoS = 0)/2; this is so
\* for the MoS worlds as they are built and for the worlds evaluate returns.
C23_SameRollsSymmetricMoS ==
    SameRollConfiguration =>
        /\ (pc.phase = "resolve" /\ pc.step = 1 /\ pc.call = 1) =>
              Symmetric(group_states(mos_states, [name |-> "MoS"]))
        /\ (pc.phase = "grouped" /\ grouped.key = [name |-> "MoS"]) =>
              Symmetric(grouped.pdf)

\* two dice and skill 4 on both sides, a weapon without traits: the margins
\* 1 and -1 have the same probability, which is not 0
C23_Witness ==
    /\ SameRollConfiguration
    /\ \A c \in Range(attacker.comps) : c.kind \notin {"Fire", "Haywire", "Corrosion"}
    /\ pc.phase = "grouped" /\ grouped.key = [name |-> "MoS"]
    /\ {-1, 0, 1} \subseteq DOMAIN grouped.pdf
    /\ grouped.pdf[1] = grouped.pdf[-1]
    /\ RLess(RZero, grouped.pdf[1])
    /\ RLess(<<1, 2>>, RSumOver(grouped.pdf, {k \in DOMAIN grouped.pdf : k >= 0}))

-----------------------------------------------------------------------------
(* Properties of the skill bonus *)

\* C24: every world _roll and _add_skill_bonus produce has a probability
\* greater than 0 and at most 1, whatever the dice, the skill and the
\* threshold modifiers of the model are.
C24_ProbabilityInUnitInterval ==
    \A w \in Range(heap) \cup call.ret :
        RLess(RZero, w.prob) /\ ~RLess(ROne, w.prob)

-----------------------------------------------------------------------------
(* Properties of the dispatch *)

\* every run of a Behavior in the pass_message call returned worlds of the
\* total probability of its input world
EveryRunConservesMass ==
    \A j \in DOMAIN pm.list :
        \A w \in Range(pm.ins[j]) :
            total_prob(Component_run(ent.comps[pm.list[j]], pm.msg, w)) = w.prob

\* C25: dispatching a step loses no probability by merging: when every
\* Behavior run conserves the probability of its input world, the worlds
\* Entity.pass_message returns have the total probability of its input
\* world, and the worlds Scenario.pass_states returns have the total
\* probability of its input worlds.
C25_DispatchKeepsTotalProbability ==
    /\ (pm.pc = "done" /\ EveryRunConservesMass) =>
          total_prob(pm.ret) = pm.input.prob
    /\ (eCall.op = "pass_states"
          /\ \A st \in eCall.arg :
                total_prob(pass_message(ent, eCall.msg, st)) = st.prob) =>
          total_prob(eCall.ret) = total_prob(eCall.arg)

-----------------------------------------------------------------------------
\* the DiceRuleComponents of an Entity subscribed to the step msg
DiceRulesAt(entity, msg) ==
    {i \in DOMAIN entity.subs[msg] :
        entity.comps[entity.subs[msg][i]].kind = "DiceRule"}

\* Claim C26: after any number of Scenario constructions over the same
\* attacker and defender, each of the two Entities has exactly one
\* DiceRuleComponent subscribed to GATHER_DICE and to ROLL_DICE, and
\* evaluate() of a later-built Scenario returns the world-set that evaluate()
\* of the first-built Scenario returned.
C26_ScenarioHoldsNoCrossQueryState ==
    /\ \A entity \in {attacker, defender}, msg \in {"GATHER_DICE", "ROLL_DICE"} :
          Cardinality(DiceRulesAt(entity, msg)) = 1
    /\ \A i \in DOMAIN returned : returned[i] = returned[1]

-----------------------------------------------------------------------------
\* the steps for which the Components added to an Entity registered a behavior
RegisteredSteps(entity) ==
    UNION {Registered(entity.comps[i].kind) : i \in DOMAIN entity.comps}

\* Claim C27: after any sequence of add_component, Entity.pass_message and
\* Component.run calls, Entity.valid_messages() is the union of the steps
\* for which the added Components registered a behavior, and every
\* Component reports the steps it registered: dispatching a step, subscribed
\* or not, changes neither set.
C27_DispatchKeepsValidMessages ==
    /\ Entity_valid_messages(ent) = RegisteredSteps(ent)
    /\ \A i \in DOMAIN ent.comps :
          Component_valid_messages(ent.comps[i]) = Registered(ent.comps[i].kind)

-----------------------------------------------------------------------------
\* Claim C28: Scenario.evaluate always terminates.  Every run of the
\* unfolded evaluate() reaches its return with a finite world-set, and every
\* iteration of the while loop of pass_states and of the while loop of
\* pass_message takes exactly one world off its working list.
C28_EvaluateTerminates ==
    /\ <>(pc.phase = "done" /\ Len(returned) = 1 /\ IsFiniteSet(returned[1]))
    /\ [][/\ PassStates_Pop_pc =>
                Len(eCall'.working) = Len(eCall.working) - 1
          /\ PassMessage_While_pc =>
                Len(pm'.working) = Len(pm.working) - 1]_vars

\* an evaluate() that went through both loops and returned several worlds
C28_Witness ==
    /\ pc.phase = "done"
    /\ Len(returned) = 1
    /\ Cardinality(returned[1]) > 1
    /\ total_prob(returned[1]) = ROne

-----------------------------------------------------------------------------
\* the number of dice rolled for a world: max(sum of its ModDice values, 1)
DiceRolled(state) ==
    LET mods == {e \in state.effects : e.name = "ModDice"}
        total == BagCardinality([e \in {m \in mods : m.value > 0} |-> e.value])
                 - BagCardinality([e \in {m \in mods : m.value < 0} |-> -e.value])
    IN  IF total < 1 THEN 1 ELSE total

\* P(the highest of n six-sided dice is face)
HighestIs(n, face) == Rat(Pow(face, n) - Pow(face - 1, n), Pow(6, n))

\* Claim C29: without the BelowAverage rule, _roll replaces a pre-roll world
\* by exactly 6 worlds, one per face 1..6, each with the effects of the input
\* world and one ModResult effect of source "Result Die" with that face, and
\* with probability input.prob * P(highest of n d6 = face), where
\* n = max(sum of the ModDice values, 1).
C29_RollGivesOneWorldPerFace ==
    (call.op = "roll" /\ \A e \in heap[1].effects : e.name # "BelowAverage") =>
        LET input == heap[1]
            n == DiceRolled(input)
            world(face) ==
                State(RMul(input.prob, HighestIs(n, face)),
                      input.effects
                          \cup {Effect("ModResult", "Result Die", face)})
        IN  /\ Cardinality(call.ret) = 6
            /\ call.ret = {world(face) : face \in 1..6}

\* a world of probability 1/2 with dice modifiers that sum to less than 1,
\* rolled without a reroll rule
C29_Witness ==
    /\ call.op = "roll"
    /\ \A e \in heap[1].effects : e.name # "BelowAverage"
    /\ heap[1].prob = <<1, 2>>
    /\ sum_effects(heap[1], [name |-> "ModDice"]) < 1
    /\ \E w \in call.ret :
          /\ w.prob = <<1, 12>>
          /\ Effect("ModResult", "Result Die", 6) \in w.effects

-----------------------------------------------------------------------------
\* the number of rolls of n six-sided dice whose highest face is face
HighestCount(n, face) == Pow(face, n) - Pow(face - 1, n)

\* the faces below the average of the highest of n six-sided dice: those
\* with face * 6^n < sum of v * HighestCount(n, v)
BelowAverageFaces(n) ==
    {face \in 1..6 :
        face * Pow(6, n) <
            BagCardinality([v \in 1..6 |-> v * HighestCount(n, v)])}

\* the single-pass reroll of the highest of n six-sided dice: q is the
\* probability of a face below the average
SinglePassReroll(n) ==
    LET below == BelowAverageFaces(n)
        q == Rat(BagCardinality([r \in below |-> HighestCount(n, r)]), Pow(6, n))
    IN  [v \in 1..6 |->
            IF v \in below THEN RMul(q, HighestIs(n, v))
            ELSE RAdd(HighestIs(n, v), RMul(q, HighestIs(n, v)))]

\* Claim C30: under the BelowAverage rule the roll PMF is the single-pass
\* reroll of P = all_probs_high_die(n, 6): with q the sum of P(r) over the
\* faces r below expected(P), a face v at or above the average gets
\* P(v) + q * P(v) and a face below it gets q * P(v); the PMF sums to 1.
C30_BelowAverageIsSinglePassReroll ==
    (call.op = "roll" /\ \E e \in heap[1].effects : e.name = "BelowAverage") =>
        LET input == heap[1]
            pmf == SinglePassReroll(DiceRolled(input))
        IN  /\ call.ret =
                  {State(RMul(input.prob, pmf[v]),
                         input.effects
                             \cup {Effect("ModResult", "Result Die", v)}) :
                      v \in 1..6}
            /\ RSum(pmf) = ROne
            /\ total_prob(call.ret) = input.prob

\* three dice rolled under the BelowAverage rule: the faces 1..4 are rolled
\* again, and a rerolled 4 is kept
C30_Witness ==
    /\ call.op = "roll"
    /\ \E e \in heap[1].effects : e.name = "BelowAverage"
    /\ DiceRolled(heap[1]) = 3
    /\ BelowAverageFaces(3) = 1..4
    /\ heap[1].prob = ROne
    /\ \E w \in call.ret :
          /\ Effect("ModResult", "Result Die", 4) \in w.effects
          /\ w.prob = RMul(<<64, 216>>, <<37, 216>>)

-----------------------------------------------------------------------------
(* get_rolls, describe_rolls and evaluate as functions of the three Entity  *)
(* objects of a Scenario: the pass_states calls in the order of the code,   *)
(* each on the Entity objects and the world-sets the calls before left      *)

\* a Scenario in which no call was made yet
ScenarioOf(base, att, def) ==
    [ent |-> [who \in Range(entities) |->
                 CASE who = "Base Rules" -> base
                   [] who = "Attacker" -> att
                   [] who = "Defender" -> def],
     start |-> default_start_states, att |-> {}, def |-> {}, mos |-> {}]

\* the pass_states calls of a loop over steps with, for each step, the calls
\* (Entity, world-set) of calls
LoopCalls(steps, calls) ==
    [n \in 1..(Len(steps) * Len(calls)) |->
        LET c == calls[((n - 1) % Len(calls)) + 1]
        IN  [step |-> steps[((n - 1) \div Len(calls)) + 1], entity |-> c.entity,
             from |-> c.side, to |-> c.side]]

\* get_rolls: its pass_states calls
GetRollsCalls ==
    LoopCalls(init_steps, [k \in DOMAIN init_entities |->
                              [entity |-> init_entities[k], side |-> "start"]])
    \o <<[step |-> "GetSkill", entity |-> "Attacker", from |-> "start", to |-> "att"],
         [step |-> "GetSkill", entity |-> "Defender", from |-> "start", to |-> "def"]>>
    \o LoopCalls(pre_roll, side_calls)

\* evaluate: its pass_states calls before and after the MoS worlds are made
RollCalls == LoopCalls(roll_steps, side_calls)
ResolveCalls ==
    LoopCalls(ResolveTimeSteps, [k \in DOMAIN entities |->
                                    [entity |-> entities[k], side |-> "mos"]])

\* one pass_states call and the assignment of its result
pass_call(sc, c) ==
    [sc EXCEPT ![c.to] = pass_states(sc.ent[c.entity], c.step, sc[c.from]),
               !.ent[c.entity] = Entity_after_pass_states(@, c.step, sc[c.from])]

RECURSIVE run_calls(_, _)
run_calls(sc, calls) ==
    IF calls = <<>> THEN sc
    ELSE run_calls(pass_call(sc, Head(calls)), Tail(calls))

\* Scenario.get_rolls
get_rolls(sc) == run_calls(sc, GetRollsCalls)

\* Scenario.evaluate: mos_states is returned
evaluate(sc) ==
    LET rolled == run_calls(get_rolls(sc), RollCalls)
        mos == [rolled EXCEPT !.mos = make_mos_states(rolled.att, rolled.def)]
    IN  run_calls(mos, ResolveCalls)

\* Scenario.describe_rolls: skill, dice pool, result bonus and TN of one world
\* of a roll
describe_roll(states) ==
    LET state == CHOOSE st \in states : TRUE
    IN  [skill |-> sum_effects(state, [name |-> "GetSkill"]),
         dice |-> Max(sum_effects(state, [name |-> "ModDice"]), 1),
         result_mod |-> sum_effects(state, [name |-> "ModResult"]),
         threshold_mod |-> sum_effects(state, [name |-> "ModThreshold"])]

\* the pass_states calls of evaluate only
NextEvaluate ==
    \/ GetRolls_InitStep
    \/ GetRolls_GetSkill
    \/ GetRolls_PreRoll
    \/ Evaluate_Roll
    \/ Evaluate_MoS
    \/ Evaluate_Resolve
    \/ Evaluate_Return

-----------------------------------------------------------------------------
(* One Scenario of a weapon with the AP trait or a status trait against a    *)
(* defender with the Agile, FieldArmor or Resist traits                      *)

\* AP (or no trait) against Agile and FieldArmor
ArmorCases ==
    {[wpn |-> w, def |-> d] :
        w \in {<<>>} \cup {<<APComponent(a)>> : a \in 1..MaxAP},
        d \in {<<>>, <<AgileComponent>>, <<FieldArmorComponent>>,
               <<AgileComponent, FieldArmorComponent>>}}

\* Fire, Haywire and Corrosion against the Resist traits
ResistCases ==
    {[wpn |-> w, def |-> d] :
        w \in {<<FireComponent(1)>>, <<HaywireComponent>>, <<CorrosionComponent>>,
               <<HaywireComponent, FireComponent(2)>>},
        d \in {<<ResistFireComponent>>, <<ResistHaywireComponent>>,
               <<ResistCorrosionComponent>>}}

InitTraits ==
    /\ IdleDice /\ IdleState /\ IdleEntity
    /\ \E wpn_damage \in 1..MaxDamage, case \in ArmorCases \cup ResistCases :
          /\ attacker = Scenario_init_model(
                            make_model(att_components(wpn_damage, case.wpn,
                                                      -1, "Never"),
                                       "Attacker"))
          /\ defender = Scenario_init_model(
                            make_model(def_components(2, MaxHull, 1, -1)
                                           \o case.def,
                                       "Defender"))
    /\ base_rules = get_rules
    /\ start_states = default_start_states
    /\ att_rolls = {} /\ def_rolls = {} /\ mos_states = {}
    /\ pc = PcAt("init", 1, 1)
    /\ log = <<>>
    /\ grouped = <<>>
    /\ res = <<>>
    /\ returned = <<>>

SpecTraits == InitTraits /\ [][NextEvaluate]_vars

-----------------------------------------------------------------------------
(* One Scenario of models with a Speed, evaluated and described several      *)
(* times                                                                     *)

\* the number of evaluate() calls on one Scenario
MaxEvaluations == 2

\* the traits of the attacker and of the defender
AttTraits ==
    UNION {{<<SpeedComponent(sp)>>, <<SpeedComponent(sp), StableComponent>>} :
              sp \in Speeds}
DefTraits == {<<>>, <<SpeedComponent("Top"), LumberingComponent>>}

InitRepeat ==
    /\ IdleDice /\ IdleState /\ IdleEntity
    /\ \E att_traits \in AttTraits :
          attacker = Scenario_init_model(
                         make_model(att_components(MaxDamage, <<>>, -1, "Never")
                                        \o att_traits,
                                    "Attacker"))
    /\ \E def_traits \in DefTraits :
          defender = Scenario_init_model(
                         make_model(def_components(2, MaxHull, 1, -1)
                                        \o def_traits,
                                    "Defender"))
    /\ base_rules = get_rules
    /\ start_states = default_start_states
    /\ att_rolls = {} /\ def_rolls = {} /\ mos_states = {}
    /\ pc = PcAt("init", 1, 1)
    /\ log = <<>>
    /\ grouped = <<>>
    /\ res = <<>>
    /\ returned = <<>>

\* evaluate() is called again on the Scenario: get_rolls starts from
\* self._start_states
Evaluate_again ==
    /\ pc.phase = "done"
    /\ Len(returned) < MaxEvaluations
    /\ start_states' = default_start_states
    /\ att_rolls' = {} /\ def_rolls' = {} /\ mos_states' = {}
    /\ pc' = PcAt("init", 1, 1)
    /\ log' = <<>>
    /\ UNCHANGED <<base_rules, attacker, defender, grouped, res, returned,
                   varsDice, varsState, varsEntity>>

\* describe_rolls() is called on the Scenario, before or after an evaluate()
Describe_rolls ==
    /\ pc \in {PcAt("init", 1, 1), PcAt("done", 1, 1)}
    /\ LET rolls == get_rolls(ScenarioOf(base_rules, attacker, defender))
       IN  /\ res' = [attacker |-> describe_roll(rolls.att),
                      defender |-> describe_roll(rolls.def)]
           /\ base_rules' = rolls.ent["Base Rules"]
           /\ attacker' = rolls.ent["Attacker"]
           /\ defender' = rolls.ent["Defender"]
    /\ UNCHANGED <<start_states, att_rolls, def_rolls, mos_states, pc, log,
                   grouped, returned, varsDice, varsState, varsEntity>>

NextRepeat ==
    \/ NextEvaluate
    \/ Evaluate_again
    \/ Describe_rolls

SpecRepeat == InitRepeat /\ [][NextRepeat]_vars

-----------------------------------------------------------------------------
(* Properties of the terminal worlds *)

\* the base rules have been dispatched APPLY_ATTACK_DAMAGE, or are about to be
AttackDamageDue ==
    \/ pc.phase \in {"return", "done", "grouped", "analysed"}
    \/ pc.phase = "resolve" /\ pc.step >= 5

\* the worlds after APPLY_ATTACK_DAMAGE and the later ones: the world-set
\* once the base rules have run the step, and the worlds the Behaviors of the
\* pending call return from then on
WorldsAfterAttackDamage ==
    (IF ResolvePast(5, 1) THEN mos_states ELSE {})
        \cup (IF AttackDamageDue THEN UNION {r.output : r \in PendingRuns}
              ELSE {})

\* Claim C31: for a defender with Hull >= 1 and Structure >= 1, every world
\* after APPLY_ATTACK_DAMAGE and every later world has Destroyed iff its
\* Structure is 0, and Crippled iff its Hull is 0 and its Structure is > 0;
\* the worlds a Behavior returns for a Crippled world are Crippled or
\* Destroyed.
C31_StatusFollowsHullAndStructure ==
    /\ \A w \in WorldsAfterAttackDamage :
          /\ (Named(w, "Destroyed") # {}) = (ValueOf(w, "Structure") = 0)
          /\ (Named(w, "Crippled") # {})
                = (ValueOf(w, "Hull") = 0 /\ ValueOf(w, "Structure") > 0)
    /\ \A r \in PendingRuns :
          Named(r.input, "Crippled") # {} =>
              \A w \in r.output :
                  Named(w, "Crippled") # {} \/ Named(w, "Destroyed") # {}

\* a missed world that is neither, and a Crippled world whose Fire damage
\* roll is about to leave it Crippled in one world and Destroyed in another
C31_Witness ==
    /\ ResolvePast(5, 1)
    /\ \E w \in mos_states :
          /\ Named(w, "Miss") # {}
          /\ Named(w, "Crippled") = {} /\ Named(w, "Destroyed") = {}
          /\ ValueOf(w, "Hull") >= 1 /\ ValueOf(w, "Structure") >= 1
    /\ \E r \in PendingRuns :
          /\ r.comp.kind = "Fire" /\ r.msg = "APPLY_EXTRA_DAMAGE"
          /\ Named(r.input, "Crippled") # {}
          /\ \E w \in r.output : Named(w, "Crippled") # {}
          /\ \E w \in r.output : Named(w, "Destroyed") # {}

\* the pending damage Effects of a world: AttackDamage and BonusDamage
UncleanedDamage(w) == {e \in w.effects : e.name \in {"AttackDamage", "BonusDamage"}}

\* Claim C32: after the CLEANUP step no terminal world has an AttackDamage
\* or BonusDamage Effect; _cleanup returns one world in which each of them
\* is replaced by a Damage Effect of the same source and value, so that the
\* Damage values sum to what the AttackDamage and BonusDamage values summed
\* to before, with the probability and the other Effects unchanged.
C32_CleanupConvertsPendingDamage ==
    /\ ResolvePast(9, 1) => \A w \in mos_states : UncleanedDamage(w) = {}
    /\ \A r \in PendingRuns :
          (r.comp.kind = "Analysis" /\ r.msg = "CLEANUP") =>
              /\ Cardinality(r.output) = 1
              /\ \A w \in r.output :
                    /\ UncleanedDamage(w) = {}
                    /\ w.prob = r.input.prob
                    /\ Named(w, "Damage")
                          = {Effect("Damage", e.source, e.value) :
                                e \in UncleanedDamage(r.input)}
                    /\ sum_effects(w, [name |-> "Damage"])
                          = sum_effects(r.input, [name |-> "AttackDamage"])
                              + sum_effects(r.input, [name |-> "BonusDamage"])
                    /\ w.effects \ Named(w, "Damage")
                          = r.input.effects \ UncleanedDamage(r.input)
    /\ \A i \in DOMAIN log :
          (log[i].side = "mos" /\ log[i].step = "CLEANUP") =>
              log[i].n_out = log[i].n_in

\* a CLEANUP run on a world with pending damage of the attack and of the
\* Fire and Haywire rolls
C32_Witness ==
    \E r \in PendingRuns :
        /\ r.comp.kind = "Analysis" /\ r.msg = "CLEANUP"
        /\ Named(r.input, "AttackDamage") # {}
        /\ Cardinality(Named(r.input, "BonusDamage")) = 2
        /\ Named(r.input, "Damage") = {}
        /\ \E w \in r.output : Cardinality(Named(w, "Damage")) = 3

-----------------------------------------------------------------------------
(* Properties of the weapon and model traits *)

\* the Components of a class registered to an Entity
CompsOf(entity, kind) ==
    {entity.comps[i] : i \in {j \in DOMAIN entity.comps : entity.comps[j].kind = kind}}

\* the attack damage of the base rules for a hit world
BaseDamage(w) == Max(NetDamage(w), 0)

\* the damage the AP value v allows in a world
APDamage(w, v) == IF Min(v, MoSOf(w)) = 0 THEN 1 ELSE Min(v, MoSOf(w))

\* the sum of the AttackDamage Effects of a world, all sources
TotalAttackDamage(w) == sum_effects(w, [name |-> "AttackDamage"])

\* evaluate is between the attacker's CALC_ATTACK_DAMAGE call and the
\* defender's MOD_ATTACK_DAMAGE call
AfterCalcBeforeMod ==
    /\ pc.phase = "resolve"
    /\ \/ pc.step = 3 /\ pc.call = 3
       \/ pc.step = 4

\* Claim C33: for an attacker whose weapon has the AP trait, _ap removes the
\* pending MarginalHit of every hit world at CALC_ATTACK_DAMAGE, so that
\* _marginal_hit splits no world at MOD_ATTACK_DAMAGE; the total AttackDamage
\* becomes max(base, a) with a = min(AP value, MoS), or 1 when that is 0, and
\* the excess over the base damage is an AttackDamage Effect from "AP".
C33_APPreemptsMarginalHit ==
    \A c \in CompsOf(attacker, "AP") :
        /\ \A r \in PendingRuns :
              (r.comp.kind = "AP" /\ Named(r.input, "Hit") # {}) =>
                  \A w \in r.output :
                      /\ Named(w, "MarginalHit") = {}
                      /\ TotalAttackDamage(w)
                            = Max(BaseDamage(w), APDamage(w, c.value))
        /\ \A r \in PendingRuns :
              (r.comp.kind = "AttackRule" /\ r.msg = "MOD_ATTACK_DAMAGE") =>
                  r.output = {r.input}
        /\ \A i \in DOMAIN log :
              (log[i].side = "mos" /\ log[i].step = "MOD_ATTACK_DAMAGE") =>
                  log[i].n_out = log[i].n_in
        /\ (ResolvePast(3, 2) /\ ~ResolvePast(5, 1)) =>
              \A w \in mos_states : Named(w, "MarginalHit") = {}
        /\ AfterCalcBeforeMod =>
              \A w \in mos_states :
                  (Named(w, "Hit") # {}) =>
                      /\ TotalAttackDamage(w)
                            = Max(BaseDamage(w), APDamage(w, c.value))
                      /\ sum_effects(w, [name |-> "AttackDamage",
                                         source |-> "Base Rules"]) = BaseDamage(w)
                      /\ get_effects(w, [name |-> "AttackDamage", source |-> "AP"])
                            = IF APDamage(w, c.value) > BaseDamage(w)
                              THEN {Effect("AttackDamage", "AP",
                                           APDamage(w, c.value) - BaseDamage(w))}
                              ELSE {}

\* _ap is about to remove a pending MarginalHit, and to add to a base damage
\* of 1 or more in another world
C33_Witness ==
    /\ CompsOf(attacker, "AP") # {}
    /\ \E r \in PendingRuns :
          /\ r.comp.kind = "AP"
          /\ Named(r.input, "MarginalHit") # {}
          /\ \E w \in r.output : Effect("AttackDamage", "AP", 1) \in w.effects
    /\ \E r \in PendingRuns :
          /\ r.comp.kind = "AP"
          /\ Named(r.input, "Hit") # {}
          /\ BaseDamage(r.input) >= 1
          /\ \E w \in r.output : TotalAttackDamage(w) > BaseDamage(r.input)

\* the status traits of a weapon: the class of the weapon Component, the
\* pending damage Effect it adds, the source of its BonusDamage, and the
\* class and the source of the Resist trait against it
StatusTraits ==
    {[wpn |-> "Fire", pending |-> "FireDamage", source |-> "Fire",
      resist |-> "ResistFire", denied |-> "Resist Fire"],
     [wpn |-> "Haywire", pending |-> "HaywireDamage", source |-> "Haywire",
      resist |-> "ResistHaywire", denied |-> "Resist Haywire"],
     [wpn |-> "Corrosion", pending |-> "CorrosionDamage", source |-> "Corrosion",
      resist |-> "ResistCorrosion", denied |-> "Resist Corrosion"]}

\* the world was destroyed by the damage of the attack itself
DestroyedByAttack(w) ==
    \E e \in Named(w, "Destroyed") : e.source \in Range(damage_order)

\* Claim C34: for a defender with ResistFire, ResistHaywire or
\* ResistCorrosion, the pending damage Effect the weapon of the attacker adds
\* at ADD_EXTRA_EFFECTS is removed by the defender in the same step and a
\* DamageDenied Effect from the Resist trait is added in its place, so that
\* the damage roll at APPLY_EXTRA_DAMAGE or END_OF_ROUND adds no BonusDamage
\* from that source, in any world up to the terminal ones.
C34_ResistRemovesPendingDamage ==
    \A t \in StatusTraits :
        CompsOf(defender, t.resist) # {} =>
            /\ \A r \in PendingRuns :
                  (r.comp.kind = t.resist /\ Named(r.input, t.pending) # {}) =>
                      /\ Cardinality(r.output) = 1
                      /\ \A w \in r.output :
                            /\ Named(w, t.pending) = {}
                            /\ get_effects(w, [name |-> "DamageDenied",
                                               source |-> t.denied]) # {}
                            /\ w.prob = r.input.prob
            /\ \A r \in PendingRuns :
                  (r.comp.kind = t.wpn
                       /\ r.msg \in {"APPLY_EXTRA_DAMAGE", "END_OF_ROUND"}) =>
                      /\ r.output = {r.input}
                      /\ get_effects(r.input, [name |-> "BonusDamage",
                                               source |-> t.source]) = {}
            /\ ResolvePast(6, 3) =>
                  \A w \in mos_states :
                      /\ Named(w, t.pending) = {}
                      /\ get_effects(w, [name |-> "BonusDamage",
                                         source |-> t.source]) = {}
                      /\ get_effects(w, [name |-> "Damage",
                                         source |-> t.source]) = {}
                      /\ CompsOf(attacker, t.wpn) # {} =>
                            (get_effects(w, [name |-> "DamageDenied",
                                             source |-> t.denied]) # {})
                                = (Named(w, "Hit") # {} /\ ~DestroyedByAttack(w))

\* the Fire roll is about to be made on a world from which ResistFire has
\* removed the pending FireDamage of a Haywire and Fire weapon
C34_Witness ==
    /\ CompsOf(defender, "ResistFire") # {}
    /\ CompsOf(attacker, "Haywire") # {}
    /\ \E r \in PendingRuns :
          /\ r.comp.kind = "Fire" /\ r.msg = "APPLY_EXTRA_DAMAGE"
          /\ get_effects(r.input, [name |-> "DamageDenied",
                                   source |-> "Resist Fire"]) # {}
          /\ Named(r.input, "FireDamage") = {}
          /\ r.output = {r.input}

\* the AttackDamage Effect of a world from one source
AttackDamageFrom(w, src) == get_effects(w, [name |-> "AttackDamage", source |-> src])

\* Claim C35: FieldArmorComponent reduces damage by 1 to a minimum of 1: on a
\* world that is not a Miss, with total pending AttackDamage T over all
\* sources, _reduce_damage returns the world unchanged when T <= 1, and
\* otherwise one world whose total AttackDamage is T - 1, the 1 being taken
\* from the "AP" Effect if there is one and else from "Base Rules", with one
\* DamageDenied Effect of value 1 from "Field Armor" added.
C35_FieldArmorReducesByOne ==
    \A r \in PendingRuns :
        (r.comp.kind = "FieldArmor" /\ Named(r.input, "Miss") = {}) =>
            LET T == TotalAttackDamage(r.input)
                denied == Effect("DamageDenied", "Field Armor", 1)
                ap_damage == sum_values(AttackDamageFrom(r.input, "AP"))
                base == sum_values(AttackDamageFrom(r.input, "Base Rules"))
            IN  IF T <= 1 THEN r.output = {r.input}
                ELSE /\ Cardinality(r.output) = 1
                     /\ \A w \in r.output :
                           /\ TotalAttackDamage(w) = T - 1
                           /\ w.prob = r.input.prob
                           /\ Named(w, "DamageDenied")
                                 = Named(r.input, "DamageDenied") \cup {denied}
                           /\ denied \notin r.input.effects
                           /\ w.effects \ (Named(w, "AttackDamage") \cup {denied})
                                 = r.input.effects \ Named(r.input, "AttackDamage")
                           /\ IF ap_damage > 0
                              THEN /\ sum_values(AttackDamageFrom(w, "AP"))
                                         = ap_damage - 1
                                   /\ AttackDamageFrom(w, "Base Rules")
                                         = AttackDamageFrom(r.input, "Base Rules")
                              ELSE sum_values(AttackDamageFrom(w, "Base Rules"))
                                         = base - 1

\* _reduce_damage is about to take 1 from an "AP" Effect of a world with
\* damage from both sources, and to leave a hit world of damage 1 as it is
C35_Witness ==
    /\ \E r \in PendingRuns :
          /\ r.comp.kind = "FieldArmor"
          /\ AttackDamageFrom(r.input, "AP") # {}
          /\ sum_values(AttackDamageFrom(r.input, "Base Rules")) >= 1
          /\ \E w \in r.output : TotalAttackDamage(w) = TotalAttackDamage(r.input) - 1
    /\ \E r \in PendingRuns :
          /\ r.comp.kind = "FieldArmor"
          /\ Named(r.input, "Hit") # {}
          /\ TotalAttackDamage(r.input) = 1
          /\ r.output = {r.input}

\* the Hit and Miss Effects of a world
HitOrMiss(w) == Named(w, "Hit") \cup Named(w, "Miss")

\* the worlds after APPLY_HIT_MISS and the later ones: the world-set once the
\* base rules have run the step, and what the Behaviors of the pending call
\* return from then on
WorldsAfterHitMiss ==
    (IF ResolvePast(2, 1) THEN mos_states ELSE {})
        \cup (IF pc.phase = "resolve" /\ pc.step >= 2
              THEN UNION {r.output : r \in PendingRuns} ELSE {})

\* Claim C36: every world after the APPLY_HIT_MISS step, the terminal worlds
\* included, carries exactly one of a Hit Effect or a Miss Effect, for any
\* defender, one with the Agile trait included: _agile, at a MoS of exactly
\* 0, removes the Hit and adds a Miss from "Agile", and leaves any other
\* world as it is.
C36_ExactlyOneOfHitOrMiss ==
    /\ \A w \in WorldsAfterHitMiss : Cardinality(HitOrMiss(w)) = 1
    /\ \A r \in PendingRuns :
          r.comp.kind = "Agile" =>
              IF MoSOf(r.input) = 0
              THEN r.output
                      = {[prob |-> r.input.prob,
                          effects |-> (r.input.effects \ Named(r.input, "Hit"))
                                          \cup {Effect("Miss", "Agile", 1)}]}
              ELSE r.output = {r.input}

\* the terminal worlds of a defender with Agile: the world of MoS 0 is a Miss
\* from "Agile", another one is a Hit
C36_Witness ==
    /\ pc.phase = "done"
    /\ CompsOf(defender, "Agile") # {}
    /\ \E w \in mos_states :
          MoSOf(w) = 0 /\ HitOrMiss(w) = {Effect("Miss", "Agile", 1)}
    /\ \E w \in mos_states : Named(w, "Hit") # {}
    /\ \E w \in mos_states : Effect("Miss", "Base Rules", 1) \in w.effects

-----------------------------------------------------------------------------
(* Properties of repeated calls *)

\* Claim C37: Scenario.evaluate is repeatable: evaluate() called several
\* times on the same Scenario, whether or not describe_rolls() is called
\* before or between, returns equal world-sets each time, and what a run
\* has changed in the Components, the Entities or the Scenario does not
\* change what the next evaluate() returns.
C37_EvaluateIsRepeatable ==
    /\ \A i \in DOMAIN returned : returned[i] = returned[1]
    /\ pc.phase = "done" =>
          evaluate(ScenarioOf(base_rules, attacker, defender)).mos
              = returned[Len(returned)]

\* evaluate() has returned twice, with describe_rolls() called as well, for
\* an attacker at Top speed with Stable whose SpeedComponent has recorded its
\* role and a defender at Top speed with Lumbering
C37_Witness ==
    /\ pc.phase = "done"
    /\ Len(returned) = MaxEvaluations
    /\ res # <<>>
    /\ CompsOf(attacker, "Stable") # {}
    /\ \E c \in CompsOf(attacker, "Speed") : c.speed = "Top" /\ c.model = "Attacker"
    /\ \E c \in CompsOf(defender, "Speed") : c.model = "Defender"
    /\ Cardinality(returned[1]) > 1

\* the Entity that make_model and Scenario.__init__ build when the set of
\* Components of the model is iterated in the opposite order
Reregistered(entity) ==
    LET n == Len(entity.comps) - 1
        own == [i \in 1..n |-> entity.comps[i]]
    IN  Scenario_init_model(make_model(Reverse(own), entity.role))

\* Claim C38: the terminal world-set of Scenario.evaluate does not depend on
\* the order in which the Components of one Entity were registered: with the
\* Components of the attacker registered in the opposite order, evaluate
\* returns an equal world-set, the sources of the Crippled, Destroyed and
\* Overdamage Effects included.
C38_RegistrationOrderIsIrrelevant ==
    pc = PcAt("init", 1, 1) =>
        evaluate(ScenarioOf(base_rules, attacker, defender)).mos
            = evaluate(ScenarioOf(base_rules, Reregistered(attacker), defender)).mos

\* Claim C39: an attacker with the Stable trait gets one extra die: when the
\* SpeedComponent of the attacker has recorded Combat or Top speed at
\* INITIALIZE, _stable adds a ModDice Effect of value +1 from "Stable" at
\* GATHER_DICE, and it adds nothing when the attacker is Braced or
\* Immobilized.
C39_StableAddsOneDie ==
    \A r \in PendingRuns :
        (r.comp.kind = "Stable" /\ r.msg = "GATHER_DICE") =>
            \A c \in CompsOf(attacker, "Speed") :
                c.model = "Attacker" =>
                    IF c.speed \in {"Combat", "Top"}
                    THEN r.output
                            = {add_effect(r.input, Effect("ModDice", "Stable", 1))}
                    ELSE r.output = {r.input}

====
